---- MODULE Spec2Model ----
(***************************************************************************)
(* Storage-engine core of the BusTub teaching database: LRU-K replacer,    *)
(* extendible hash table, buffer pool manager and the B+ tree index that   *)
(* lives in buffer-pool pages.  Every operator below is a translation of   *)
(* one function of the C++ sources; arrays keep their C layout (0-based in *)
(* the code, position i of the code is element i + 1 of the sequence).     *)
(***************************************************************************)
EXTENDS Integers, Sequences, FiniteSets, TLC

(* ------------------------------ bounds -------------------------------- *)
\* frames of the buffer pool in the buffer-pool specification
PoolSize == 2
\* page ids the buffer-pool specification may allocate or name
MaxPageId == 2
\* frames of the buffer pool under the B+ tree (large enough: never evicts)
TreePoolSize == 12
\* keys 1..MaxKey are offered to the B+ tree
MaxKey == 5
\* number of B+ tree operations issued in one behaviour
MaxOps == 5
\* capacity of one directory bucket of the page table
BucketSize == 1
\* the k of the replacer's LRU-K policy
ReplacerK == 2

(* -------------------------- program constants ------------------------- *)
INVALID_PAGE_ID == -1
HEADER_PAGE_ID == 0
NullFrame == -1

VARIABLES
  pages,          \* pages_[frame]: page_id_, pin_count_, is_dirty_, data_
  free_list,      \* free_list_
  page_table,     \* page_table_ (ExtendibleHashTable<page_id_t, frame_id_t>)
  replacer,       \* replacer_ (LRUKReplacer)
  next_page_id,   \* next_page_id_
  disk,           \* what the disk manager holds, by page id
  pool_size,      \* pool_size_
  root_page_id,   \* BPlusTree::root_page_id_
  leaf_max_size,  \* BPlusTree::leaf_max_size_
  internal_max_size, \* BPlusTree::internal_max_size_
  kv,             \* history: the key/value pairs a sequential map would hold
  last,           \* history: the last completed call and what it returned
  nops,           \* history: number of calls issued so far
  failed,         \* an assertion failed or an exception left an operation
  iter,           \* the caller's IndexIterator pair (it, end) and the keys it read
  thr             \* unlatched tree threads: position and locals of each

vars == <<pages, free_list, page_table, replacer, next_page_id, disk, pool_size,
          root_page_id, leaf_max_size, internal_max_size, kv, last, nops, failed, iter, thr>>

(* ------------------------------ helpers ------------------------------- *)
Pow2(n) == 2 ^ n

SetMin(S) == CHOOSE x \in S : \A y \in S : x <= y

Range(f) == {f[i] : i \in DOMAIN f}

\* std::list / std::vector erase of the element at position i (1-based)
RemoveAt(seq, i) == [j \in 1..(Len(seq) - 1) |-> IF j < i THEN seq[j] ELSE seq[j + 1]]

\* the element of a one-element set; Only({e : x \in {v}}) is e with x bound to
\* the value of v, computed once
Only(S) == CHOOSE e \in S : TRUE

\* position of the first element of seq satisfying Test, 0 when there is none
FirstIndex(seq, Test(_)) ==
  IF \E i \in 1..Len(seq) : Test(seq[i])
  THEN SetMin({i \in 1..Len(seq) : Test(seq[i])})
  ELSE 0

(***************************************************************************)
(* Extendible hash table.  A table is a record                             *)
(*   global_depth, num_buckets, bucket_size,                               *)
(*   dir     : the directory, a sequence of bucket names,                  *)
(*   buckets : bucket name -> [depth, list], list a sequence of <<k, v>>.  *)
(* A bucket (a shared_ptr in the code) is named by the smallest directory  *)
(* position that references it; unreferenced buckets are dropped, as the   *)
(* reference count does.                                                   *)
(***************************************************************************)
NewHashTable(bucket_size) ==
  [global_depth |-> 0, bucket_size |-> bucket_size, num_buckets |-> 1,
   dir |-> <<1>>, buckets |-> (1 :> [depth |-> 0, list |-> <<>>])]

\* std::hash of an integer is the integer; & mask keeps the low global_depth bits
\* a hash that keeps one bit of the key: keys of one parity collide
IndexOfOneBit(ht, key) == (key % 2) % Pow2(ht.global_depth)

IndexOf(ht, key) == key % Pow2(ht.global_depth)

BucketOf(ht, key) == ht.buckets[ht.dir[IndexOf(ht, key) + 1]]

BucketFind(bucket, key) ==
  LET i == FirstIndex(bucket.list, LAMBDA e : e[1] = key)
  IN  IF i = 0 THEN [found |-> FALSE, value |-> NullFrame]
      ELSE [found |-> TRUE, value |-> bucket.list[i][2]]

HashFind(ht, key) == BucketFind(BucketOf(ht, key), key)

BucketRemove(bucket, key) ==
  LET i == FirstIndex(bucket.list, LAMBDA e : e[1] = key)
  IN  IF i = 0 THEN [bucket |-> bucket, ret |-> FALSE]
      ELSE [bucket |-> [bucket EXCEPT !.list = RemoveAt(bucket.list, i)], ret |-> TRUE]

\* a remove that looks in the bucket of directory slot 0 whatever the key
HashRemoveInSlotZero(ht, key) ==
  LET name == ht.dir[1]
      r == BucketRemove(ht.buckets[name], key)
  IN  [ht |-> [ht EXCEPT !.buckets[name] = r.bucket], ret |-> r.ret]

\* a remove that gives the directory up once the table holds nothing
HashRemoveShrinking(ht, key) ==
  LET name == ht.dir[IndexOf(ht, key) + 1]
      r == BucketRemove(ht.buckets[name], key)
      left == [ht EXCEPT !.buckets[name] = r.bucket]
  IN  [ht |-> IF \A b \in DOMAIN left.buckets : left.buckets[b].list = << >>
              THEN [global_depth |-> 0, bucket_size |-> ht.bucket_size, num_buckets |-> 1,
                    dir |-> <<1>>, buckets |-> (1 :> [depth |-> 0, list |-> << >>])]
              ELSE left,
       ret |-> r.ret]

HashRemove(ht, key) ==
  LET name == ht.dir[IndexOf(ht, key) + 1]
      r == BucketRemove(ht.buckets[name], key)
  IN  [ht |-> [ht EXCEPT !.buckets[name] = r.bucket], ret |-> r.ret]

\* a bucket insert that appends without testing IsFull
BucketInsertNoFullTest(ht, bucket, key, value) ==
  LET i == FirstIndex(bucket.list, LAMBDA e : e[1] = key)
  IN  IF i # 0
      THEN [bucket |-> [bucket EXCEPT !.list[i] = <<key, value>>], ret |-> TRUE]
      ELSE [bucket |-> [bucket EXCEPT !.list = Append(bucket.list, <<key, value>>)],
            ret |-> TRUE]

\* Bucket::Insert: overwrite, refuse when full, else append
BucketInsert(ht, bucket, key, value) ==
  LET i == FirstIndex(bucket.list, LAMBDA e : e[1] = key)
  IN  IF i # 0
      THEN [bucket |-> [bucket EXCEPT !.list[i] = <<key, value>>], ret |-> TRUE]
      ELSE IF Len(bucket.list) >= ht.bucket_size
           THEN [bucket |-> bucket, ret |-> FALSE]
           ELSE [bucket |-> [bucket EXCEPT !.list = Append(bucket.list, <<key, value>>)],
                 ret |-> TRUE]

\* names the buckets by the smallest directory position that references them
Canonical(ht, dir, buckets) ==
  LET cdir == [i \in DOMAIN dir |-> SetMin({j \in DOMAIN dir : dir[j] = dir[i]})]
  IN  [ht EXCEPT !.dir = cdir,
                 !.buckets = [n \in Range(cdir) |-> buckets[dir[n]]]]

\* a split that does not count the bucket it adds
RedistributeBucketUncounted(ht, name) ==
  LET bucket == ht.buckets[name]
      new_depth == bucket.depth + 1
      base == Pow2(bucket.depth)
      split == Pow2(new_depth)
      items == bucket.list
      low_index == IndexOf(ht, items[1][1]) % base
      InFirst(e) == (IndexOf(ht, e[1]) % split) = low_index
      first_bucket == [depth |-> new_depth, list |-> SelectSeq(items, InFirst)]
      second_bucket == [depth |-> new_depth,
                        list |-> SelectSeq(items, LAMBDA e : ~InFirst(e))]
      n == Len(ht.dir)
      \* fresh names n + 1 and n + 2 for the two new buckets
      dir == [i \in 1..n |->
                IF ((i - 1) % base) = low_index
                THEN IF ((i - 1) % split) = low_index THEN n + 1 ELSE n + 2
                ELSE ht.dir[i]]
      buckets == [b \in (DOMAIN ht.buckets) \cup {n + 1, n + 2} |->
                    IF b = n + 1 THEN first_bucket
                    ELSE IF b = n + 2 THEN second_bucket
                    ELSE ht.buckets[b]]
  IN  Canonical(ht, dir, buckets)

RedistributeBucket(ht, name) ==
  LET bucket == ht.buckets[name]
      new_depth == bucket.depth + 1
      base == Pow2(bucket.depth)
      split == Pow2(new_depth)
      items == bucket.list
      low_index == IndexOf(ht, items[1][1]) % base
      InFirst(e) == (IndexOf(ht, e[1]) % split) = low_index
      first_bucket == [depth |-> new_depth, list |-> SelectSeq(items, InFirst)]
      second_bucket == [depth |-> new_depth,
                        list |-> SelectSeq(items, LAMBDA e : ~InFirst(e))]
      n == Len(ht.dir)
      \* fresh names n + 1 and n + 2 for the two new buckets
      dir == [i \in 1..n |->
                IF ((i - 1) % base) = low_index
                THEN IF ((i - 1) % split) = low_index THEN n + 1 ELSE n + 2
                ELSE ht.dir[i]]
      buckets == [b \in (DOMAIN ht.buckets) \cup {n + 1, n + 2} |->
                    IF b = n + 1 THEN first_bucket
                    ELSE IF b = n + 2 THEN second_bucket
                    ELSE ht.buckets[b]]
  IN  Canonical([ht EXCEPT !.num_buckets = @ + 1], dir, buckets)

RECURSIVE InsertInternal(_, _, _)
InsertInternal(ht, key, value) ==
  LET name == ht.dir[IndexOf(ht, key) + 1]
      bucket == ht.buckets[name]
      r == BucketInsert(ht, bucket, key, value)
  IN  IF r.ret
      THEN [ht EXCEPT !.buckets[name] = r.bucket]
      ELSE IF ht.global_depth > bucket.depth
           THEN InsertInternal(RedistributeBucket(ht, name), key, value)
           ELSE LET old == Pow2(ht.global_depth)
                    grown == [ht EXCEPT
                                !.global_depth = @ + 1,
                                !.dir = [i \in 1..(2 * old) |-> ht.dir[((i - 1) % old) + 1]]]
                IN  InsertInternal(RedistributeBucket(grown, name), key, value)

HashInsert(ht, key, value) == InsertInternal(ht, key, value)

(***************************************************************************)
(* LRU-K replacer.  temp_pool_ and cache_pool_ are sequences of FrameInfo  *)
(* records [id, times, evictable], oldest first; temp_map_ and cache_map_  *)
(* index exactly the records of their list.                                *)
(***************************************************************************)
NewReplacer(num_frames, k) ==
  [replacer_size |-> num_frames, k |-> k, temp_pool |-> <<>>, cache_pool |-> <<>>]

PosIn(pool, frame_id) == FirstIndex(pool, LAMBDA e : e.id = frame_id)

\* a replacer that gives up its oldest frame whether or not it is evictable
EvictOldest(rep) ==
  IF rep.temp_pool # <<>>
  THEN [rep |-> [rep EXCEPT !.temp_pool = Tail(@)],
        ret |-> TRUE, frame_id |-> rep.temp_pool[1].id]
  ELSE IF rep.cache_pool # <<>>
       THEN [rep |-> [rep EXCEPT !.cache_pool = Tail(@)],
             ret |-> TRUE, frame_id |-> rep.cache_pool[1].id]
       ELSE [rep |-> rep, ret |-> FALSE, frame_id |-> NullFrame]

\* a replacer that scans cache_pool_ before temp_pool_
EvictCacheFirst(rep) ==
  LET t == FirstIndex(rep.temp_pool, LAMBDA e : e.evictable)
      c == FirstIndex(rep.cache_pool, LAMBDA e : e.evictable)
  IN  IF c # 0
      THEN [rep |-> [rep EXCEPT !.cache_pool = RemoveAt(@, c)],
            ret |-> TRUE, frame_id |-> rep.cache_pool[c].id]
      ELSE IF t # 0
           THEN [rep |-> [rep EXCEPT !.temp_pool = RemoveAt(@, t)],
                 ret |-> TRUE, frame_id |-> rep.temp_pool[t].id]
           ELSE [rep |-> rep, ret |-> FALSE, frame_id |-> NullFrame]

Evict(rep) ==
  LET t == FirstIndex(rep.temp_pool, LAMBDA e : e.evictable)
      c == FirstIndex(rep.cache_pool, LAMBDA e : e.evictable)
  IN  IF t # 0
      THEN [rep |-> [rep EXCEPT !.temp_pool = RemoveAt(@, t)],
            ret |-> TRUE, frame_id |-> rep.temp_pool[t].id]
      ELSE IF c # 0
           THEN [rep |-> [rep EXCEPT !.cache_pool = RemoveAt(@, c)],
                 ret |-> TRUE, frame_id |-> rep.cache_pool[c].id]
           ELSE [rep |-> rep, ret |-> FALSE, frame_id |-> NullFrame]

\* a replacer whose new records start out not evictable
RecordAccessPinned(rep, frame_id) ==
  LET c == PosIn(rep.cache_pool, frame_id)
      t == PosIn(rep.temp_pool, frame_id)
  IN  IF c # 0
      THEN [rep EXCEPT !.cache_pool = Append(RemoveAt(@, c), rep.cache_pool[c])]
      ELSE IF t # 0
           THEN LET info == [rep.temp_pool[t] EXCEPT !.times = @ + 1]
                IN  IF info.times >= rep.k
                    THEN [rep EXCEPT !.cache_pool = Append(@, info),
                                     !.temp_pool = RemoveAt(@, t)]
                    ELSE [rep EXCEPT !.temp_pool[t] = info]
           ELSE [rep EXCEPT !.temp_pool =
                   Append(@, [id |-> frame_id, times |-> 1, evictable |-> FALSE])]

\* a replacer that moves a history record to the young end on every access
RecordAccessMoveToBack(rep, frame_id) ==
  LET c == PosIn(rep.cache_pool, frame_id)
      t == PosIn(rep.temp_pool, frame_id)
  IN  IF c # 0
      THEN [rep EXCEPT !.cache_pool = Append(RemoveAt(@, c), rep.cache_pool[c])]
      ELSE IF t # 0
           THEN LET info == [rep.temp_pool[t] EXCEPT !.times = @ + 1]
                IN  IF info.times >= rep.k
                    THEN [rep EXCEPT !.cache_pool = Append(@, info),
                                     !.temp_pool = RemoveAt(@, t)]
                    ELSE [rep EXCEPT !.temp_pool = Append(RemoveAt(@, t), info)]
           ELSE [rep EXCEPT !.temp_pool =
                   Append(@, [id |-> frame_id, times |-> 1, evictable |-> TRUE])]

RecordAccess(rep, frame_id) ==
  LET c == PosIn(rep.cache_pool, frame_id)
      t == PosIn(rep.temp_pool, frame_id)
  IN  IF c # 0
      THEN [rep EXCEPT !.cache_pool = Append(RemoveAt(@, c), rep.cache_pool[c])]
      ELSE IF t # 0
           THEN LET info == [rep.temp_pool[t] EXCEPT !.times = @ + 1]
                IN  IF info.times >= rep.k
                    THEN [rep EXCEPT !.cache_pool = Append(@, info),
                                     !.temp_pool = RemoveAt(@, t)]
                    ELSE [rep EXCEPT !.temp_pool[t] = info]
           ELSE [rep EXCEPT !.temp_pool =
                   Append(@, [id |-> frame_id, times |-> 1, evictable |-> TRUE])]

SetEvictable(rep, frame_id, set_evictable) ==
  LET c == PosIn(rep.cache_pool, frame_id)
      t == PosIn(rep.temp_pool, frame_id)
  IN  IF t # 0 THEN [rep EXCEPT !.temp_pool[t].evictable = set_evictable]
      ELSE IF c # 0 THEN [rep EXCEPT !.cache_pool[c].evictable = set_evictable]
      ELSE rep

\* BUSTUB_ASSERT on a non-evictable record: ok is FALSE and nothing is erased
LRUKRemove(rep, frame_id) ==
  LET c == PosIn(rep.cache_pool, frame_id)
      t == PosIn(rep.temp_pool, frame_id)
  IN  IF t # 0
      THEN IF rep.temp_pool[t].evictable
           THEN [rep |-> [rep EXCEPT !.temp_pool = RemoveAt(@, t)], ok |-> TRUE]
           ELSE [rep |-> rep, ok |-> FALSE]
      ELSE IF c # 0
           THEN IF rep.cache_pool[c].evictable
                THEN [rep |-> [rep EXCEPT !.cache_pool = RemoveAt(@, c)], ok |-> TRUE]
                ELSE [rep |-> rep, ok |-> FALSE]
           ELSE [rep |-> rep, ok |-> TRUE]

\* a size that counts the evictable records of cache_pool_ only
ReplacerSizeCacheOnly(rep) ==
  Cardinality({i \in 1..Len(rep.cache_pool) : rep.cache_pool[i].evictable})

ReplacerSize(rep) ==
  Cardinality({i \in 1..Len(rep.cache_pool) : rep.cache_pool[i].evictable})
  + Cardinality({i \in 1..Len(rep.temp_pool) : rep.temp_pool[i].evictable})


(***************************************************************************)
(* Pages.  The data_ of a frame is kept as the fields the B+ tree pages    *)
(* and the header page overlay on it; a zeroed buffer is all fields zero.  *)
(* array holds ArrayCap <<key, value>> slots: the slots at and after size  *)
(* keep whatever was last written there.                                   *)
(***************************************************************************)
\* slots of array_ that fit in one page
ArrayCap == 5

INVALID_INDEX_PAGE == 0
LEAF_PAGE == 1
INTERNAL_PAGE == 2

ZeroData ==
  [page_type |-> 0, size |-> 0, max_size |-> 0, page_id |-> 0, parent_page_id |-> 0,
   next_page_id |-> 0, array |-> [i \in 1..ArrayCap |-> <<0, 0>>], records |-> <<>>]

\* Page::Page(): no page, not pinned, not dirty, zeroed
NewPageFrame == [page_id |-> INVALID_PAGE_ID, pin_count |-> 0, is_dirty |-> FALSE,
                 data |-> ZeroData]

\* DiskManager::ReadPage: a page never written reads as zeroes
ReadPage(d, page_id) == IF page_id \in DOMAIN d THEN d[page_id] ELSE ZeroData

WritePage(d, page_id, data) == [p \in (DOMAIN d) \cup {page_id} |->
                                  IF p = page_id THEN data ELSE d[p]]

(***************************************************************************)
(* Buffer pool manager.  s is the record of the pool's members (pages,     *)
(* free_list, page_table, replacer, next_page_id, disk); every operator    *)
(* returns the members after the call and what the call returned.          *)
(***************************************************************************)
BufferPoolManagerInstance(size, replacer_k) ==
  [pages |-> [f \in 0..(size - 1) |-> NewPageFrame],
   free_list |-> [i \in 1..size |-> i - 1],
   page_table |-> NewHashTable(BucketSize),
   replacer |-> NewReplacer(size, replacer_k),
   next_page_id |-> 0,
   disk |-> << >>]

\* a victim choice that reads the front of the free list and leaves it there
TakeFrameNoPop(s) ==
  IF s.free_list # <<>>
  THEN [s |-> s, frame_id |-> Head(s.free_list)]
  ELSE Only({ IF ~e.ret
              THEN [s |-> s, frame_id |-> NullFrame]
              ELSE [s |-> [s EXCEPT
                             !.replacer = e.rep,
                             !.disk = IF s.pages[e.frame_id].is_dirty
                                      THEN WritePage(@, s.pages[e.frame_id].page_id,
                                                     s.pages[e.frame_id].data)
                                      ELSE @,
                             !.page_table = HashRemove(@, s.pages[e.frame_id].page_id).ht],
                    frame_id |-> e.frame_id]
              : e \in {Evict(s.replacer)} })

\* a victim choice that reuses the frame without writing a dirty page back
TakeFrameNoWriteBack(s) ==
  IF s.free_list # <<>>
  THEN [s |-> [s EXCEPT !.free_list = Tail(@)], frame_id |-> Head(s.free_list)]
  ELSE Only({ IF ~e.ret
              THEN [s |-> s, frame_id |-> NullFrame]
              ELSE [s |-> [s EXCEPT
                             !.replacer = e.rep,
                             !.page_table = HashRemove(@, s.pages[e.frame_id].page_id).ht],
                    frame_id |-> e.frame_id]
              : e \in {Evict(s.replacer)} })

\* the victim of NewPgImp and FetchPgImp: the front of the free list, else the
\* replacer's choice, written back if dirty and dropped from the page table
TakeFrame(s) ==
  IF s.free_list # <<>>
  THEN [s |-> [s EXCEPT !.free_list = Tail(@)], frame_id |-> Head(s.free_list)]
  ELSE Only({ IF ~e.ret
              THEN [s |-> s, frame_id |-> NullFrame]
              ELSE Only({ [s |-> [s EXCEPT
                                    !.replacer = e.rep,
                                    !.disk = IF pg.is_dirty
                                             THEN WritePage(@, pg.page_id, pg.data)
                                             ELSE @,
                                    !.page_table = HashRemove(@, pg.page_id).ht],
                           frame_id |-> e.frame_id]
                          : pg \in {s.pages[e.frame_id]} })
              : e \in {Evict(s.replacer)} })

\* an allocator that hands out the smallest page id the page table does not hold
NewPgImpReuseId(s) ==
  Only({ IF v.frame_id = NullFrame
         THEN [s |-> s, frame_id |-> NullFrame, page_id |-> INVALID_PAGE_ID]
         ELSE Only({ [s |-> [v.s EXCEPT
                               !.next_page_id = IF id = @ THEN @ + 1 ELSE @,
                               !.pages[v.frame_id] = [page_id |-> id, pin_count |-> 1,
                                                      is_dirty |-> FALSE, data |-> ZeroData],
                               !.replacer = SetEvictable(RecordAccess(@, v.frame_id),
                                                         v.frame_id, FALSE),
                               !.page_table = HashInsert(@, id, v.frame_id)],
                      frame_id |-> v.frame_id, page_id |-> id]
                     : id \in {SetMin({p \in 0..v.s.next_page_id :
                                         ~HashFind(v.s.page_table, p).found})} })
         : v \in {TakeFrame(s)} })

NewPgImp(s) ==
  Only({ IF v.frame_id = NullFrame
         THEN [s |-> s, frame_id |-> NullFrame, page_id |-> INVALID_PAGE_ID]
         ELSE [s |-> [v.s EXCEPT
                        !.next_page_id = @ + 1,
                        !.pages[v.frame_id] = [page_id |-> v.s.next_page_id, pin_count |-> 1,
                                               is_dirty |-> FALSE, data |-> ZeroData],
                        !.replacer = SetEvictable(RecordAccess(@, v.frame_id),
                                                  v.frame_id, FALSE),
                        !.page_table = HashInsert(@, v.s.next_page_id, v.frame_id)],
               frame_id |-> v.frame_id, page_id |-> v.s.next_page_id]
         : v \in {TakeFrame(s)} })

FetchPgImp(s, page_id) ==
  Only({ IF r.found
         THEN [s |-> [s EXCEPT
                        !.pages[r.value].pin_count = @ + 1,
                        !.replacer = SetEvictable(RecordAccess(@, r.value), r.value, FALSE)],
               frame_id |-> r.value]
         ELSE Only({ IF v.frame_id = NullFrame
                     THEN [s |-> s, frame_id |-> NullFrame]
                     ELSE [s |-> [v.s EXCEPT
                                    !.pages[v.frame_id] =
                                       [page_id |-> page_id, pin_count |-> 1,
                                        is_dirty |-> FALSE,
                                        data |-> ReadPage(v.s.disk, page_id)],
                                    !.replacer = SetEvictable(RecordAccess(@, v.frame_id),
                                                              v.frame_id, FALSE),
                                    !.page_table = HashInsert(@, page_id, v.frame_id)],
                           frame_id |-> v.frame_id]
                     : v \in {TakeFrame(s)} })
         : r \in {HashFind(s.page_table, page_id)} })

\* an unpin that stores the caller's hint in is_dirty_, clearing it on false
UnpinPgImpAssignDirty(s, page_id, is_dirty) ==
  Only({ IF ~r.found THEN [s |-> s, ret |-> FALSE]
         ELSE IF s.pages[r.value].pin_count = 0 THEN [s |-> s, ret |-> FALSE]
         ELSE [s |-> [s EXCEPT
                        !.pages[r.value].pin_count = @ - 1,
                        !.pages[r.value].is_dirty = is_dirty,
                        !.replacer = IF s.pages[r.value].pin_count = 1
                                     THEN SetEvictable(@, r.value, TRUE)
                                     ELSE @],
               ret |-> TRUE]
         : r \in {HashFind(s.page_table, page_id)} })

\* an unpin that treats the pin as a flag: any successful unpin makes the frame
\* evictable
UnpinPgImpAsFlag(s, page_id, is_dirty) ==
  Only({ IF ~r.found THEN [s |-> s, ret |-> FALSE]
         ELSE IF s.pages[r.value].pin_count = 0 THEN [s |-> s, ret |-> FALSE]
         ELSE [s |-> [s EXCEPT
                        !.pages[r.value].pin_count = @ - 1,
                        !.pages[r.value].is_dirty = IF is_dirty THEN TRUE ELSE @,
                        !.replacer = SetEvictable(@, r.value, TRUE)],
               ret |-> TRUE]
         : r \in {HashFind(s.page_table, page_id)} })

UnpinPgImp(s, page_id, is_dirty) ==
  Only({ IF ~r.found THEN [s |-> s, ret |-> FALSE]
         ELSE IF s.pages[r.value].pin_count = 0 THEN [s |-> s, ret |-> FALSE]
         ELSE [s |-> [s EXCEPT
                        !.pages[r.value].pin_count = @ - 1,
                        !.pages[r.value].is_dirty = IF is_dirty THEN TRUE ELSE @,
                        !.replacer = IF s.pages[r.value].pin_count = 1
                                     THEN SetEvictable(@, r.value, TRUE) ELSE @],
               ret |-> TRUE]
         : r \in {HashFind(s.page_table, page_id)} })

FlushPgImp(s, page_id) ==
  Only({ IF page_id = INVALID_PAGE_ID THEN [s |-> s, ret |-> FALSE]
         ELSE IF ~r.found THEN [s |-> s, ret |-> FALSE]
         ELSE [s |-> [s EXCEPT !.disk = WritePage(@, page_id, s.pages[r.value].data),
                               !.pages[r.value].is_dirty = FALSE],
               ret |-> TRUE]
         : r \in {HashFind(s.page_table, page_id)} })

\* the loop of FlushAllPgsImp from frame index on; it returns at the first
\* frame whose page_id_ is INVALID_PAGE_ID
RECURSIVE FlushAllFrom(_, _)
FlushAllFrom(s, index) ==
  IF index >= Cardinality(DOMAIN s.pages)
  THEN s
  ELSE IF s.pages[index].page_id = INVALID_PAGE_ID
       THEN s
       ELSE FlushAllFrom([s EXCEPT
                            !.disk = WritePage(@, s.pages[index].page_id, s.pages[index].data),
                            !.pages[index].is_dirty = FALSE],
                         index + 1)

FlushAllPgsImp(s) == FlushAllFrom(s, 0)

\* ok is FALSE when LRUKReplacer::Remove hit its assertion
\* a delete that does not look at the pin count
DeletePgImpIgnoringPins(s, page_id) ==
  Only({ IF ~r.found THEN [s |-> s, ret |-> TRUE, ok |-> TRUE]
         ELSE Only({ IF ~rm.ok
                     THEN [s |-> [s EXCEPT !.page_table = HashRemove(@, page_id).ht],
                           ret |-> FALSE, ok |-> FALSE]
                     ELSE [s |-> [s EXCEPT
                                    !.page_table = HashRemove(@, page_id).ht,
                                    !.replacer = rm.rep,
                                    !.free_list = Append(@, r.value),
                                    !.pages[r.value].data = ZeroData],
                           ret |-> TRUE, ok |-> TRUE]
                     : rm \in {LRUKRemove(s.replacer, r.value)} })
         : r \in {HashFind(s.page_table, page_id)} })

DeletePgImp(s, page_id) ==
  Only({ IF ~r.found THEN [s |-> s, ret |-> TRUE, ok |-> TRUE]
         ELSE IF s.pages[r.value].pin_count > 0 THEN [s |-> s, ret |-> FALSE, ok |-> TRUE]
         ELSE Only({ IF ~rm.ok
                     THEN [s |-> [s EXCEPT !.page_table = HashRemove(@, page_id).ht],
                           ret |-> FALSE, ok |-> FALSE]
                     ELSE [s |-> [s EXCEPT
                                    !.page_table = HashRemove(@, page_id).ht,
                                    !.replacer = rm.rep,
                                    !.free_list = Append(@, r.value),
                                    !.pages[r.value].data = ZeroData],
                           ret |-> TRUE, ok |-> TRUE]
                     : rm \in {LRUKRemove(s.replacer, r.value)} })
         : r \in {HashFind(s.page_table, page_id)} })


(***************************************************************************)
(* The buffer pool on its own: callers issue the public operations in any  *)
(* order and write to pages they hold pinned.                              *)
(***************************************************************************)
\* largest pin count a caller builds up on one page
MaxPin == 2
\* values a caller writes at offset 0 of a page are 1..MaxByte
MaxByte == 1

BpmState ==
  [pages |-> pages, free_list |-> free_list, page_table |-> page_table,
   replacer |-> replacer, next_page_id |-> next_page_id, disk |-> disk]

SetBpm(s) ==
  /\ pages' = s.pages
  /\ free_list' = s.free_list
  /\ page_table' = s.page_table
  /\ replacer' = s.replacer
  /\ next_page_id' = s.next_page_id
  /\ disk' = s.disk

NoPre ==
  [present |-> FALSE, agreed |-> TRUE, sizes |-> << >>, root |-> INVALID_PAGE_ID,
   two_min_leaves |-> FALSE]

NoCall == [op |-> "none", page_id |-> INVALID_PAGE_ID, frame_id |-> NullFrame,
           ret |-> FALSE, key |-> 0, value |-> 0, pre |-> NoPre]

Called(op, page_id, frame_id, ret) ==
  [op |-> op, page_id |-> page_id, frame_id |-> frame_id, ret |-> ret, key |-> 0, value |-> 0,
   pre |-> NoPre]

NoThreads == << >>

NoIterator == [live |-> FALSE, leaf |-> INVALID_PAGE_ID, index |-> 0,
               end_leaf |-> INVALID_PAGE_ID, end_index |-> 0, visited |-> << >>]

\* number of buffer-pool calls issued in one behaviour
MaxBpmOps == 8

TreeUnchanged ==
  /\ nops < MaxBpmOps
  /\ nops' = nops + 1
  /\ UNCHANGED <<pool_size, root_page_id, leaf_max_size, internal_max_size, kv, iter, thr>>

InitBpm ==
  /\ pool_size = PoolSize
  /\ LET s == BufferPoolManagerInstance(PoolSize, ReplacerK)
     IN  /\ pages = s.pages
         /\ free_list = s.free_list
         /\ page_table = s.page_table
         /\ replacer = s.replacer
         /\ next_page_id = s.next_page_id
         /\ disk = s.disk
  /\ root_page_id = INVALID_PAGE_ID
  /\ leaf_max_size = 0
  /\ internal_max_size = 0
  /\ kv = << >>
  /\ last = NoCall
  /\ nops = 0
  /\ failed = FALSE
  /\ iter = NoIterator
  /\ thr = NoThreads

NewPage ==
  /\ ~failed
  /\ next_page_id <= MaxPageId
  /\ LET r == NewPgImp(BpmState)
     IN  /\ SetBpm(r.s)
         /\ last' = Called("NewPage", r.page_id, r.frame_id, r.frame_id # NullFrame)
  /\ UNCHANGED failed
  /\ TreeUnchanged

\* callers fetch pages that AllocatePage has handed out
FetchPage(page_id) ==
  /\ ~failed
  /\ page_id < next_page_id
  /\ \A f \in DOMAIN pages :
       (HashFind(page_table, page_id).found /\ HashFind(page_table, page_id).value = f)
         => pages[f].pin_count < MaxPin
  /\ LET r == FetchPgImp(BpmState, page_id)
     IN  /\ SetBpm(r.s)
         /\ last' = Called("FetchPage", page_id, r.frame_id, r.frame_id # NullFrame)
  /\ UNCHANGED failed
  /\ TreeUnchanged

UnpinPage(page_id, is_dirty) ==
  /\ ~failed
  /\ LET r == UnpinPgImp(BpmState, page_id, is_dirty)
     IN  /\ SetBpm(r.s)
         /\ last' = Called(IF is_dirty THEN "UnpinPageDirty" ELSE "UnpinPage",
                           page_id, NullFrame, r.ret)
  /\ UNCHANGED failed
  /\ TreeUnchanged

FlushPage(page_id) ==
  /\ ~failed
  /\ LET r == FlushPgImp(BpmState, page_id)
     IN  /\ SetBpm(r.s)
         /\ last' = Called("FlushPage", page_id, NullFrame, r.ret)
  /\ UNCHANGED failed
  /\ TreeUnchanged

FlushAllPages ==
  /\ ~failed
  /\ SetBpm(FlushAllPgsImp(BpmState))
  /\ last' = Called("FlushAllPages", INVALID_PAGE_ID, NullFrame, TRUE)
  /\ UNCHANGED failed
  /\ TreeUnchanged

DeletePage(page_id) ==
  /\ ~failed
  /\ LET r == DeletePgImp(BpmState, page_id)
     IN  /\ SetBpm(r.s)
         /\ last' = Called("DeletePage", page_id, NullFrame, r.ret)
         /\ failed' = ~r.ok
  /\ TreeUnchanged

\* a caller that holds a pin on the page writes value at offset 0 of its data
WriteData(page_id, value) ==
  /\ ~failed
  /\ LET r == HashFind(page_table, page_id)
     IN  /\ r.found
         /\ pages[r.value].pin_count > 0
         /\ pages' = [pages EXCEPT ![r.value].data.page_type = value]
         /\ last' = Called("WriteData", page_id, r.value, TRUE)
  /\ UNCHANGED <<free_list, page_table, replacer, next_page_id, disk, failed>>
  /\ TreeUnchanged

NextBpm ==
  \/ NewPage
  \/ \E p \in 0..MaxPageId : FetchPage(p)
  \/ \E p \in 0..MaxPageId, d \in BOOLEAN : UnpinPage(p, d)
  \/ \E p \in 0..MaxPageId : FlushPage(p)
  \/ FlushAllPages
  \/ \E p \in 0..MaxPageId : DeletePage(p)
  \/ \E p \in 0..MaxPageId, v \in 1..MaxByte : WriteData(p, v)

SpecBpm == InitBpm /\ [][NextBpm]_vars

(***************************************************************************)
(* Callers that report their writes: a caller that wrote the page unpins   *)
(* it with is_dirty = true, a caller that only read it unpins it with      *)
(* is_dirty = false.  kv records, per page id, the byte the last reported  *)
(* write stored.  No page is deleted.                                      *)
(***************************************************************************)
WriteAndUnpin(page_id, value) ==
  /\ ~failed
  /\ nops < MaxBpmOps
  /\ HashFind(page_table, page_id).found
  /\ pages[HashFind(page_table, page_id).value].pin_count > 0
  /\ LET f == HashFind(page_table, page_id).value
         r == UnpinPgImp([BpmState EXCEPT !.pages[f].data.page_type = value], page_id, TRUE)
     IN  /\ SetBpm(r.s)
         /\ last' = Called("WriteAndUnpin", page_id, f, r.ret)
  /\ kv' = [p \in (DOMAIN kv) \cup {page_id} |-> IF p = page_id THEN value ELSE kv[p]]
  /\ nops' = nops + 1
  /\ UNCHANGED <<pool_size, root_page_id, leaf_max_size, internal_max_size, iter, thr, failed>>

NextDirty ==
  \/ NewPage
  \/ \E p \in 0..MaxPageId : FetchPage(p)
  \/ \E p \in 0..MaxPageId : UnpinPage(p, FALSE)
  \/ \E p \in 0..MaxPageId, v \in 0..MaxByte : WriteAndUnpin(p, v)
  \/ \E p \in 0..MaxPageId : FlushPage(p)

SpecDirty == InitBpm /\ [][NextDirty]_vars

(***************************************************************************)
(* The hash table on its own (ExtendibleHashTable<int, int>): callers      *)
(* issue Insert and Remove in any order on keys 0..MaxHashKey, the table   *)
(* built with bucket_size 1..MaxBucketSize.  page_table is the table and   *)
(* kv the map the calls describe: key -> value of its last insert, if not  *)
(* removed since.                                                          *)
(***************************************************************************)
MaxHashKey == 4
MaxHashValue == 2
MaxBucketSize == 2
\* number of hash table calls issued in one behaviour
MaxHashOps == 6

InitHash ==
  /\ pool_size = PoolSize
  /\ LET s == BufferPoolManagerInstance(PoolSize, ReplacerK)
     IN  /\ pages = s.pages
         /\ free_list = s.free_list
         /\ replacer = s.replacer
         /\ next_page_id = s.next_page_id
         /\ disk = s.disk
  /\ \E bucket_size \in 1..MaxBucketSize : page_table = NewHashTable(bucket_size)
  /\ root_page_id = INVALID_PAGE_ID
  /\ leaf_max_size = 0
  /\ internal_max_size = 0
  /\ kv = << >>
  /\ last = NoCall
  /\ nops = 0
  /\ failed = FALSE
  /\ iter = NoIterator
  /\ thr = NoThreads

HashCall(ht, map, call) ==
  /\ nops < MaxHashOps
  /\ nops' = nops + 1
  /\ page_table' = ht
  /\ kv' = map
  /\ last' = call
  /\ UNCHANGED <<pages, free_list, replacer, next_page_id, disk, pool_size, root_page_id,
                 leaf_max_size, internal_max_size, iter, thr>>

HashTableInsert(key, value) ==
  /\ HashCall(HashInsert(page_table, key, value),
              [k \in (DOMAIN kv) \cup {key} |-> IF k = key THEN value ELSE kv[k]],
              [NoCall EXCEPT !.op = "Insert", !.key = key, !.value = value, !.ret = TRUE])
  /\ UNCHANGED failed

HashTableRemove(key) ==
  /\ HashCall(HashRemove(page_table, key).ht,
              [k \in (DOMAIN kv) \ {key} |-> kv[k]],
              [NoCall EXCEPT !.op = "Remove", !.key = key,
                             !.ret = HashRemove(page_table, key).ret])
  /\ UNCHANGED failed

NextHash ==
  \/ \E key \in 0..MaxHashKey, value \in 1..MaxHashValue : HashTableInsert(key, value)
  \/ \E key \in 0..MaxHashKey : HashTableRemove(key)

SpecHash == InitHash /\ [][NextHash]_vars

(***************************************************************************)
(* Insert one InsertInternal invocation at a time.  Insert holds latch_    *)
(* from its first line to its return, so no other call takes effect while  *)
(* an insert is retrying.  thr is the inserting call: its position, its    *)
(* key and value, and the number of times it split a bucket.               *)
(***************************************************************************)
\* an insert that split a bucket this often is not continued
MaxSplits == 5
\* number of hash table calls issued in one behaviour of the stepwise run
MaxStepCalls == 4

InsertIdle == [pc |-> "idle", key |-> 0, value |-> 0, splits |-> 0]

\* one invocation of InsertInternal: done when Bucket::Insert took the pair,
\* else the table after the split (and the doubling) that precedes the retry
InsertInternalStep(ht, key, value) ==
  LET name == ht.dir[IndexOf(ht, key) + 1]
      bucket == ht.buckets[name]
      r == BucketInsert(ht, bucket, key, value)
  IN  IF r.ret
      THEN [ht |-> [ht EXCEPT !.buckets[name] = r.bucket], done |-> TRUE]
      ELSE IF ht.global_depth > bucket.depth
           THEN [ht |-> RedistributeBucket(ht, name), done |-> FALSE]
           ELSE LET old == Pow2(ht.global_depth)
                    grown == [ht EXCEPT
                                !.global_depth = @ + 1,
                                !.dir = [i \in 1..(2 * old) |-> ht.dir[((i - 1) % old) + 1]]]
                IN  [ht |-> RedistributeBucket(grown, name), done |-> FALSE]

InitHashSteps ==
  /\ pool_size = PoolSize
  /\ LET s == BufferPoolManagerInstance(PoolSize, ReplacerK)
     IN  /\ pages = s.pages
         /\ free_list = s.free_list
         /\ replacer = s.replacer
         /\ next_page_id = s.next_page_id
         /\ disk = s.disk
  /\ \E bucket_size \in 1..MaxBucketSize : page_table = NewHashTable(bucket_size)
  /\ root_page_id = INVALID_PAGE_ID
  /\ leaf_max_size = 0
  /\ internal_max_size = 0
  /\ kv = << >>
  /\ last = NoCall
  /\ nops = 0
  /\ failed = FALSE
  /\ iter = NoIterator
  /\ thr = InsertIdle

\* Insert takes the latch and enters InsertInternal
HashInsertCall(key, value) ==
  /\ thr.pc = "idle"
  /\ nops < MaxStepCalls
  /\ nops' = nops + 1
  /\ thr' = [pc |-> "insert", key |-> key, value |-> value, splits |-> 0]
  /\ last' = [NoCall EXCEPT !.op = "Insert", !.key = key, !.value = value, !.ret = FALSE]
  /\ UNCHANGED <<pages, free_list, page_table, replacer, next_page_id, disk, pool_size,
                 root_page_id, leaf_max_size, internal_max_size, kv, failed, iter>>

\* InsertInternal runs once: it returns, or splits and calls itself
HashInsertRetry ==
  /\ thr.pc = "insert"
  /\ thr.splits < MaxSplits
  /\ LET r == InsertInternalStep(page_table, thr.key, thr.value)
     IN  /\ page_table' = r.ht
         /\ IF r.done
            THEN /\ thr' = [thr EXCEPT !.pc = "idle"]
                 /\ kv' = [k \in (DOMAIN kv) \cup {thr.key} |->
                             IF k = thr.key THEN thr.value ELSE kv[k]]
                 /\ last' = [last EXCEPT !.ret = TRUE]
            ELSE /\ thr' = [thr EXCEPT !.splits = @ + 1]
                 /\ UNCHANGED <<kv, last>>
  /\ UNCHANGED <<pages, free_list, replacer, next_page_id, disk, pool_size, root_page_id,
                 leaf_max_size, internal_max_size, nops, failed, iter>>

HashRemoveCall(key) ==
  /\ thr.pc = "idle"
  /\ nops < MaxStepCalls
  /\ nops' = nops + 1
  /\ page_table' = HashRemove(page_table, key).ht
  /\ kv' = [k \in (DOMAIN kv) \ {key} |-> kv[k]]
  /\ last' = [NoCall EXCEPT !.op = "Remove", !.key = key,
                            !.ret = HashRemove(page_table, key).ret]
  /\ UNCHANGED <<pages, free_list, replacer, next_page_id, disk, pool_size, root_page_id,
                 leaf_max_size, internal_max_size, failed, iter, thr>>

NextHashSteps ==
  \/ \E key \in 0..MaxHashKey, value \in 1..MaxHashValue : HashInsertCall(key, value)
  \/ HashInsertRetry
  \/ \E key \in 0..MaxHashKey : HashRemoveCall(key)

\* the thread inside Insert keeps running: nothing in InsertInternal waits
SpecHashSteps == InitHashSteps /\ [][NextHashSteps]_vars /\ WF_vars(HashInsertRetry)

(***************************************************************************)
(* The replacer on its own: callers issue RecordAccess, SetEvictable,      *)
(* Evict and Remove in any order on frames 1..LruFrames, with k_ between   *)
(* ReplacerK and MaxReplacerK.  kv is the log of the recorded accesses, in *)
(* order, of the frames that have a record.                                *)
(***************************************************************************)
LruFrames == 3
MaxReplacerK == 3
\* number of replacer calls issued in one behaviour
MaxLruOps == 9

InitLruFrom(min_k) ==
  /\ pool_size = LruFrames
  /\ LET s == BufferPoolManagerInstance(PoolSize, ReplacerK)
     IN  /\ pages = s.pages
         /\ free_list = s.free_list
         /\ page_table = s.page_table
         /\ next_page_id = s.next_page_id
         /\ disk = s.disk
  /\ \E k \in min_k..MaxReplacerK : replacer = NewReplacer(LruFrames, k)
  /\ root_page_id = INVALID_PAGE_ID
  /\ leaf_max_size = 0
  /\ internal_max_size = 0
  /\ kv = << >>
  /\ last = NoCall
  /\ nops = 0
  /\ failed = FALSE
  /\ iter = NoIterator
  /\ thr = NoThreads

InitLru == InitLruFrom(ReplacerK)

\* every k_ from 1 on
InitLruAnyK == InitLruFrom(1)

LruCall(rep, log, op, frame_id, ret) ==
  /\ ~failed
  /\ nops < MaxLruOps
  /\ nops' = nops + 1
  /\ replacer' = rep
  /\ kv' = log
  /\ last' = Called(op, INVALID_PAGE_ID, frame_id, ret)
  /\ UNCHANGED <<pages, free_list, page_table, next_page_id, disk, pool_size, root_page_id,
                 leaf_max_size, internal_max_size, iter, thr>>

\* the log without the accesses of frame_id, whose record is gone
Forget(log, frame_id) == SelectSeq(log, LAMBDA f : f # frame_id)

LruRecordAccess(frame_id) ==
  /\ LruCall(RecordAccess(replacer, frame_id), Append(kv, frame_id),
             "RecordAccess", frame_id, TRUE)
  /\ UNCHANGED failed

LruSetEvictable(frame_id, set_evictable) ==
  /\ LruCall(SetEvictable(replacer, frame_id, set_evictable), kv,
             "SetEvictable", frame_id, set_evictable)
  /\ UNCHANGED failed

LruEvict ==
  /\ LET e == Evict(replacer)
     IN  LruCall(e.rep, Forget(kv, e.frame_id), "Evict", e.frame_id, e.ret)
  /\ UNCHANGED failed

LruRemove(frame_id) ==
  /\ LET r == LRUKRemove(replacer, frame_id)
     IN  /\ LruCall(r.rep, IF r.ok THEN Forget(kv, frame_id) ELSE kv,
                    "Remove", frame_id, r.ok)
         /\ failed' = ~r.ok

NextLru ==
  \/ \E f \in 1..LruFrames : LruRecordAccess(f)
  \/ \E f \in 1..LruFrames, b \in BOOLEAN : LruSetEvictable(f, b)
  \/ LruEvict
  \/ \E f \in 1..LruFrames : LruRemove(f)

SpecLru == InitLru /\ [][NextLru]_vars

SpecLruAnyK == InitLruAnyK /\ [][NextLru]_vars

(***************************************************************************)
(* FlushAllPgsImp takes no latch_: one thread runs its loop statement by   *)
(* statement while the latched operations of other callers take effect in  *)
(* between.  thr is the flushing thread: its position, its loop index and  *)
(* its local page_id.                                                      *)
(***************************************************************************)
FlushIdle == [pc |-> "idle", index |-> 0, page_id |-> INVALID_PAGE_ID]

InitFlush ==
  /\ pool_size = PoolSize
  /\ LET s == BufferPoolManagerInstance(PoolSize, ReplacerK)
     IN  /\ pages = s.pages
         /\ free_list = s.free_list
         /\ page_table = s.page_table
         /\ replacer = s.replacer
         /\ next_page_id = s.next_page_id
         /\ disk = s.disk
  /\ root_page_id = INVALID_PAGE_ID
  /\ leaf_max_size = 0
  /\ internal_max_size = 0
  /\ kv = << >>
  /\ last = NoCall
  /\ nops = 0
  /\ failed = FALSE
  /\ iter = NoIterator
  /\ thr = FlushIdle

FlushThreadStep(next_thr) ==
  /\ thr' = next_thr
  /\ UNCHANGED <<free_list, page_table, replacer, next_page_id, pool_size, root_page_id,
                 leaf_max_size, internal_max_size, kv, last, failed, iter>>

\* flush_all_pages is called: index = 0
FlushAllCall ==
  /\ thr.pc = "idle"
  /\ nops < MaxBpmOps
  /\ nops' = nops + 1
  /\ FlushThreadStep([pc |-> "read", index |-> 0, page_id |-> INVALID_PAGE_ID])
  /\ UNCHANGED <<pages, disk>>

\* the loop test and page_id = pages_[index].page_id_
FlushAllRead ==
  /\ thr.pc = "read"
  /\ IF thr.index >= pool_size \/ pages[thr.index].page_id = INVALID_PAGE_ID
     THEN FlushThreadStep(FlushIdle)
     ELSE FlushThreadStep([thr EXCEPT !.pc = "write", !.page_id = pages[thr.index].page_id])
  /\ UNCHANGED <<pages, disk, nops>>

\* disk_manager_->WritePage(page_id, pages_[index].data_)
FlushAllWrite ==
  /\ thr.pc = "write"
  /\ disk' = WritePage(disk, thr.page_id, pages[thr.index].data)
  /\ FlushThreadStep([thr EXCEPT !.pc = "clear"])
  /\ UNCHANGED <<pages, nops>>

\* pages_[index].is_dirty_ = false; index++
FlushAllClear ==
  /\ thr.pc = "clear"
  /\ pages' = [pages EXCEPT ![thr.index].is_dirty = FALSE]
  /\ FlushThreadStep([thr EXCEPT !.pc = "read", !.index = @ + 1])
  /\ UNCHANGED <<disk, nops>>

NextFlush ==
  \/ NewPage
  \/ \E p \in 0..MaxPageId : FetchPage(p)
  \/ \E p \in 0..MaxPageId : UnpinPage(p, FALSE)
  \/ \E p \in 0..MaxPageId, v \in 0..MaxByte : WriteAndUnpin(p, v)
  \/ FlushAllCall
  \/ FlushAllRead
  \/ FlushAllWrite
  \/ FlushAllClear

SpecFlush == InitFlush /\ [][NextFlush]_vars


(***************************************************************************)
(* B+ tree pages.  d is the data_ of a page read as a tree page; array_ of *)
(* the code is d.array, element i of the code being d.array[i + 1].        *)
(***************************************************************************)
KeyOf(d, index) == d.array[index + 1][1]

ValueOf(d, index) == d.array[index + 1][2]

IsLeafPage(d) == d.page_type = LEAF_PAGE

IsRootPage(d) == d.parent_page_id = INVALID_PAGE_ID

GetMinSize(d) == (d.max_size + 1) \div 2

\* std::lower_bound over array_[first, first + len): the first slot whose key
\* is not below key, by the halving search (an inverted range is not entered)
RECURSIVE LowerBound(_, _, _, _)
LowerBound(d, first, len, key) ==
  IF len <= 0 THEN first
  ELSE LET half == len \div 2
           mid == first + half
       IN  IF KeyOf(d, mid) < key
           THEN LowerBound(d, mid + 1, len - half - 1, key)
           ELSE LowerBound(d, first, half, key)

\* std::move(array_ + index + 1, array_ + size, array_ + index)
ShiftLeft(array, index, size) ==
  [i \in 1..ArrayCap |-> IF i - 1 >= index /\ i - 1 <= size - 2 THEN array[i + 1]
                         ELSE array[i]]

\* std::move_backward(array_ + index, array_ + size, array_ + size + 1)
ShiftRight(array, index, size) ==
  [i \in 1..ArrayCap |-> IF i - 1 >= index + 1 /\ i - 1 <= size THEN array[i - 1]
                         ELSE array[i]]

\* std::copy(items + from, items + from + n, array_ + to)
CopyInto(array, to, items, from, n) ==
  [i \in 1..ArrayCap |-> IF i - 1 >= to /\ i - 1 < to + n THEN items[(i - 1 - to) + from + 1]
                         ELSE array[i]]

(* ------------------------------ leaf page ----------------------------- *)
LeafInit(d, page_id, parent_id, max_size) ==
  [d EXCEPT !.page_type = LEAF_PAGE, !.size = 0, !.page_id = page_id,
            !.parent_page_id = parent_id, !.next_page_id = INVALID_PAGE_ID,
            !.max_size = max_size]

\* the getter returns the constant, whatever next_page_id_ holds
GetNextPageId(d) == INVALID_PAGE_ID

SetNextPageId(d, next_page_id_) == [d EXCEPT !.next_page_id = next_page_id_]

KeyIndex(d, key) == LowerBound(d, 0, d.size, key)

LeafLookup(d, key) ==
  LET index == KeyIndex(d, key)
  IN  IF index = d.size \/ KeyOf(d, index) # key
      THEN [found |-> FALSE, value |-> 0]
      ELSE [found |-> TRUE, value |-> ValueOf(d, index)]

\* returns the page after the call; the size it reports is that page's size
LeafInsert(d, key, value) ==
  LET index == KeyIndex(d, key)
  IN  IF index = d.size
      THEN [d EXCEPT !.array[index + 1] = <<key, value>>, !.size = @ + 1]
      ELSE IF KeyOf(d, index) = key
           THEN d
           ELSE [d EXCEPT !.array = [ShiftRight(d.array, index, d.size)
                                       EXCEPT ![index + 1] = <<key, value>>],
                          !.size = @ + 1]

LeafCopyData(d, items, from, n) ==
  [d EXCEPT !.array = CopyInto(d.array, d.size, items, from, n), !.size = @ + n]

\* the two pages after src.MoveAllTo(dst)
LeafMoveAllTo(src, dst) ==
  [src |-> [src EXCEPT !.size = 0],
   dst |-> SetNextPageId(LeafCopyData(dst, src.array, 0, src.size), GetNextPageId(src))]

LeafMoveHalfTo(src, dst) ==
  LET new_size == GetMinSize(src)
  IN  [src |-> [src EXCEPT !.size = new_size],
       dst |-> LeafCopyData(dst, src.array, new_size, src.size - new_size)]

\* LeafPage::Remove; inverted is TRUE when the std::move it ran was handed a
\* range whose end lies before its start (index = size)
LeafRemove(d, key) ==
  LET index == KeyIndex(d, key)
  IN  IF KeyOf(d, index) = key
      THEN [d |-> [d EXCEPT !.array = ShiftLeft(d.array, index, d.size), !.size = @ - 1],
            ret |-> TRUE, inverted |-> index + 1 > d.size]
      ELSE [d |-> d, ret |-> FALSE, inverted |-> FALSE]

(* ---------------------------- internal page --------------------------- *)
InternalInit(d, page_id, parent_id, max_size) ==
  [d EXCEPT !.page_type = INTERNAL_PAGE, !.size = 0, !.page_id = page_id,
            !.parent_page_id = parent_id, !.max_size = max_size]

SetKeyAt(d, index, key) == [d EXCEPT !.array[index + 1][1] = key]

SetValueAt(d, index, value) == [d EXCEPT !.array[index + 1][2] = value]

\* a faulty Lookup, kept for sensitivity runs: a key equal to a separator is
\* sent to the child on the separator's left
InternalLookupLeftOfSeparator(d, key) ==
  LET target == LowerBound(d, 1, d.size - 1, key)
  IN  IF target = d.size THEN ValueOf(d, d.size - 1)
      ELSE ValueOf(d, target - 1)

InternalLookup(d, key) ==
  LET target == LowerBound(d, 1, d.size - 1, key)
  IN  IF target = d.size THEN ValueOf(d, d.size - 1)
      ELSE IF KeyOf(d, target) = key THEN ValueOf(d, target)
      ELSE ValueOf(d, target - 1)

ValueIndex(d, value) ==
  IF \E i \in 0..(d.size - 1) : ValueOf(d, i) = value
  THEN SetMin({i \in 0..(d.size - 1) : ValueOf(d, i) = value})
  ELSE d.size

InternalRemove(d, index) ==
  [d EXCEPT !.array = ShiftLeft(d.array, index, d.size), !.size = @ - 1]

InsertNodeAfter(d, new_page_id, key, old_page_id) ==
  LET index == ValueIndex(d, old_page_id) + 1
  IN  [d EXCEPT !.array = [ShiftRight(d.array, index, d.size)
                             EXCEPT ![index + 1] = <<key, new_page_id>>],
                !.size = @ + 1]


(***************************************************************************)
(* B+ tree.  s is the record of the buffer pool's members together with    *)
(* the tree's root_page_id and a flag, failed, raised when the code runs   *)
(* into memory it does not own.  A Page * of the code is the page id whose *)
(* frame it points at: the tree runs with free frames left, so no page it  *)
(* holds moves.                                                            *)
(***************************************************************************)
\* the one index registered in the header page
IndexName == "index"

\* a descent longer than this has left the tree
MaxDepth == 6

FrameOf(s, page_id) == HashFind(s.page_table, page_id).value

Data(s, page_id) == s.pages[FrameOf(s, page_id)].data

Put(s, page_id, d) == [s EXCEPT !.pages[FrameOf(s, page_id)].data = d]

\* BPlusTreePage::SetParentPageId, SetSize and IncreaseSize on the page page_id
SetParentPageId(s, page_id, parent_id) ==
  Put(s, page_id, [Data(s, page_id) EXCEPT !.parent_page_id = parent_id])

SetSize(s, page_id, size) == Put(s, page_id, [Data(s, page_id) EXCEPT !.size = size])

IncreaseSize(s, page_id, amount) ==
  Put(s, page_id, [Data(s, page_id) EXCEPT !.size = @ + amount])

\* the leaf page page_id after SetNextPageId, and the internal page page_id
\* after SetKeyAt, Remove and InsertNodeAfter
LeafSetNextPageId(s, page_id, next_page_id_) ==
  Put(s, page_id, SetNextPageId(Data(s, page_id), next_page_id_))

InternalSetKeyAt(s, page_id, index, key) ==
  Put(s, page_id, SetKeyAt(Data(s, page_id), index, key))

InternalRemoveAt(s, page_id, index) ==
  Put(s, page_id, InternalRemove(Data(s, page_id), index))

InternalInsertNodeAfter(s, page_id, new_page_id, key, old_page_id) ==
  Put(s, page_id, InsertNodeAfter(Data(s, page_id), new_page_id, key, old_page_id))

\* the leaf page page_id after Insert(key, value)
LeafInsertInto(s, page_id, key, value) ==
  Put(s, page_id, LeafInsert(Data(s, page_id), key, value))

Fetch(s, page_id) == FetchPgImp(s, page_id).s

Unpin(s, page_id, is_dirty) == UnpinPgImp(s, page_id, is_dirty).s

\* HeaderPage::InsertRecord: refuses a name it already holds
InsertRecord(d, name, root_id) ==
  IF \E i \in 1..Len(d.records) : d.records[i][1] = name
  THEN d
  ELSE [d EXCEPT !.records = Append(@, <<name, root_id>>)]

\* HeaderPage::UpdateRecord: changes the record of a name it holds
UpdateRecord(d, name, root_id) ==
  [d EXCEPT !.records = [i \in 1..Len(@) |-> IF @[i][1] = name THEN <<name, root_id>>
                                              ELSE @[i]]]

UpdateRootPageId(s, insert_record) ==
  Only({ Unpin(Put(s1, HEADER_PAGE_ID,
                   IF insert_record # 0
                   THEN InsertRecord(Data(s1, HEADER_PAGE_ID), IndexName, s.root_page_id)
                   ELSE UpdateRecord(Data(s1, HEADER_PAGE_ID), IndexName, s.root_page_id)),
               HEADER_PAGE_ID, TRUE)
         : s1 \in {Fetch(s, HEADER_PAGE_ID)} })

IsEmpty(s) == s.root_page_id = INVALID_PAGE_ID

\* the loop of FindLeaf: page_id is fetched and pinned
RECURSIVE Descend(_, _, _, _)
Descend(s, page_id, key, fuel) ==
  IF IsLeafPage(Data(s, page_id)) THEN [s |-> s, page_id |-> page_id]
  ELSE IF fuel = 0 THEN [s |-> [s EXCEPT !.failed = TRUE], page_id |-> page_id]
  ELSE Only({ Descend(Fetch(s, child), child, key, fuel - 1)
              : child \in {InternalLookup(Data(s, page_id), key)} })

FindLeaf(s, key) == Descend(Fetch(s, s.root_page_id), s.root_page_id, key, MaxDepth)

GetValue(s, key) ==
  Only({ Only({ [s |-> Unpin(r.s, Data(r.s, r.page_id).page_id, FALSE),
                 ret |-> l.found, value |-> l.value]
                : l \in {LeafLookup(Data(r.s, r.page_id), key)} })
         : r \in {FindLeaf(s, key)} })

\* the loop of InternalPage::CopyData that re-parents the first n children
RECURSIVE Reparent(_, _, _, _)
Reparent(s, dst_id, index, n) ==
  IF index >= n THEN s
  ELSE Only({ Reparent(Unpin(SetParentPageId(Fetch(s, child), child,
                                             Data(s, dst_id).page_id),
                             child, TRUE),
                       dst_id, index + 1, n)
              : child \in {ValueOf(Data(s, dst_id), index)} })

\* InternalPage::CopyData: the items land at the start of array_
InternalCopyData(s, dst_id, items, from, n) ==
  Reparent(Put(s, dst_id, [Data(s, dst_id) EXCEPT
                             !.array = CopyInto(@, 0, items, from, n), !.size = @ + n]),
           dst_id, 0, n)

InternalMoveHalfTo(s, src_id, dst_id) ==
  Only({ SetSize(InternalCopyData(s, dst_id, src.array, GetMinSize(src),
                                  src.size - GetMinSize(src)),
                 src_id, GetMinSize(src))
         : src \in {Data(s, src_id)} })

InternalMoveAllToAsChild(s, src_id, dst_id) ==
  Only({ Put(s, dst_id, [d EXCEPT !.array[d.size + 1] =
                                    <<KeyOf(Data(s, src_id), 0), Data(s, src_id).page_id>>,
                                  !.size = @ + 1])
         : d \in {Data(s, dst_id)} })

InternalMoveAllTo(s, src_id, dst_id) ==
  Only({ SetSize(InternalCopyData(s, dst_id, src.array, 0, src.size), src_id, 0)
         : src \in {Data(s, src_id)} })

InsertToEnd(s, page_id, key, value) ==
  Only({ Unpin(SetParentPageId(
                 Fetch(Put(s, page_id, [d EXCEPT !.array[d.size + 1] = <<key, value>>,
                                                 !.size = @ + 1]),
                       value),
                 value, d.page_id),
               value, TRUE)
         : d \in {Data(s, page_id)} })

\* std::move_backward(array_, array_ + size, array_ + 1) ends at array_[0]: with
\* two or more entries it writes in front of array_, over the page header
InsertToStart(s, page_id, key, value) ==
  Only({ Unpin(SetParentPageId(
                 Fetch(Put([s EXCEPT !.failed = @ \/ d.size >= 2], page_id,
                           [d EXCEPT !.array[1] = <<key, value>>, !.size = @ + 1]),
                       value),
                 value, d.page_id),
               value, TRUE)
         : d \in {Data(s, page_id)} })

Split(s, page_id) ==
  Only({ Only({ IF IsLeafPage(page)
                THEN Only({ [s |-> Put(Put(r.s, r.page_id, m.dst), page_id, m.src),
                             page_id |-> r.page_id]
                            : m \in {LeafMoveHalfTo(
                                       page,
                                       LeafInit(Data(r.s, r.page_id), r.page_id,
                                                page.parent_page_id, s.leaf_max_size))} })
                ELSE [s |-> InternalMoveHalfTo(
                              Put(r.s, r.page_id,
                                  InternalInit(Data(r.s, r.page_id), r.page_id,
                                               page.parent_page_id, s.internal_max_size)),
                              page_id, r.page_id),
                      page_id |-> r.page_id]
                : page \in {Data(r.s, page_id)} })
         : r \in {NewPgImp(s)} })

RECURSIVE InsertToParent(_, _, _, _)
InsertToParent(s, old_id, split_id, split_key) ==
  IF IsRootPage(Data(s, old_id))
  THEN Only({ Unpin(UpdateRootPageId(
                      SetParentPageId(
                        SetParentPageId(
                          Put([r.s EXCEPT !.root_page_id = r.page_id], r.page_id,
                              [InternalInit(Data(r.s, r.page_id), r.page_id,
                                            INVALID_PAGE_ID, s.internal_max_size)
                                 EXCEPT !.array[2][1] = split_key,
                                        !.array[1][2] = Data(s, old_id).page_id,
                                        !.array[2][2] = Data(s, split_id).page_id,
                                        !.size = 2]),
                          old_id, r.page_id),
                        split_id, r.page_id),
                      0),
                    r.page_id, TRUE)
              : r \in {NewPgImp(s)} })
  ELSE Only({ Only({ IF Data(s1, parent_id).size < s.internal_max_size
                     THEN Unpin(s2, parent_id, TRUE)
                     ELSE Only({ Unpin(Unpin(InsertToParent(
                                               sp.s, parent_id, sp.page_id,
                                               KeyOf(Data(sp.s, sp.page_id), 0)),
                                             parent_id, TRUE),
                                       Data(sp.s, sp.page_id).page_id, TRUE)
                                 : sp \in {Split(s2, parent_id)} })
                     : s2 \in {InternalInsertNodeAfter(s1, parent_id,
                                                       Data(s, split_id).page_id, split_key,
                                                       Data(s, old_id).page_id)} })
              : parent_id \in {Data(s, old_id).parent_page_id},
                s1 \in {Fetch(s, Data(s, old_id).parent_page_id)} })

\* Insert from line 96 on: the leaf page_id is pinned and holds the new entry,
\* old_size and size are its size before and after LeafPage::Insert
FinishInsert(s, page_id, old_size, size) ==
  IF size = old_size
  THEN [s |-> Unpin(s, Data(s, page_id).page_id, FALSE), ret |-> FALSE]
  ELSE IF size <= s.leaf_max_size
       THEN [s |-> Unpin(s, Data(s, page_id).page_id, TRUE), ret |-> TRUE]
       ELSE Only({ [s |-> Unpin(Unpin(InsertToParent(
                                        LeafSetNextPageId(
                                          LeafSetNextPageId(sp.s, sp.page_id,
                                                            GetNextPageId(Data(sp.s, page_id))),
                                          page_id, sp.page_id),
                                        page_id, sp.page_id,
                                        KeyOf(Data(sp.s, sp.page_id), 0)),
                                      Data(s, page_id).page_id, TRUE),
                                sp.page_id, TRUE),
                    ret |-> FALSE]
                   : sp \in {Split(s, page_id)} })

Insert(s, key, value) ==
  IF IsEmpty(s)
  THEN Only({ [s |-> UpdateRootPageId(
                       Unpin(Put([r.s EXCEPT !.root_page_id = r.page_id], r.page_id,
                                 LeafInsert(LeafInit(Data(r.s, r.page_id), r.page_id,
                                                     INVALID_PAGE_ID, s.leaf_max_size),
                                            key, value)),
                             r.page_id, TRUE),
                       1),
               ret |-> TRUE]
              : r \in {NewPgImp(s)} })
  ELSE Only({ Only({ FinishInsert(Put(r.s, r.page_id, inserted), r.page_id,
                                  Data(r.s, r.page_id).size, inserted.size)
                     : inserted \in {LeafInsert(Data(r.s, r.page_id), key, value)} })
              : r \in {FindLeaf(s, key)} })


RedistributeLeft(s, sibling_id, target_id, parent_id, index) ==
  Only({ InternalSetKeyAt(
           IncreaseSize(
             IF IsLeafPage(sibling)
             THEN LeafInsertInto(s, target_id, KeyOf(sibling, sibling.size - 1),
                                 ValueOf(sibling, sibling.size - 1))
             ELSE InsertToStart(s, target_id, KeyOf(sibling, sibling.size - 1),
                                ValueOf(sibling, index)),
             sibling_id, -1),
           parent_id, index, KeyOf(sibling, sibling.size - 1))
         : sibling \in {Data(s, sibling_id)} })

RedistributeRight(s, sibling_id, target_id, parent_id, index) ==
  Only({ IF IsLeafPage(sibling)
         THEN InternalSetKeyAt(
                IncreaseSize(LeafInsertInto(s, target_id, KeyOf(sibling, 0),
                                            ValueOf(sibling, 0)),
                             sibling_id, -1),
                parent_id, index + 1, KeyOf(sibling, 0))
         ELSE InternalSetKeyAt(
                IncreaseSize(InsertToEnd(s, target_id, KeyOf(sibling, 1),
                                         ValueOf(sibling, 1)),
                             sibling_id, -1),
                parent_id, index + 1, KeyOf(sibling, 1))
         : sibling \in {Data(s, sibling_id)} })

RECURSIVE RedistributeOrMerge(_, _, _)

Merge(s, dst_id, src_id, parent_id, index, fuel) ==
  Only({ IF Data(s2, parent_id).size < GetMinSize(Data(s2, parent_id))
         THEN RedistributeOrMerge(s2, parent_id, fuel)
         ELSE s2
         : s2 \in {InternalRemoveAt(IF IsLeafPage(Data(s, dst_id))
                                    THEN Only({ Put(Put(s, dst_id, m.dst), src_id, m.src)
                                                : m \in {LeafMoveAllTo(Data(s, src_id),
                                                                       Data(s, dst_id))} })
                                    ELSE InternalMoveAllTo(s, src_id, dst_id),
                                    parent_id, index)} })

\* RedistributeOrMerge lines 240 to 254: neither sibling lends; merge into the
\* left sibling, else take in the right one, else leave the parent pinned
MergeWithSibling(s, node_id, parent_id, index, fuel) ==
  IF index > 0
  THEN Only({ Unpin(Unpin(Merge(Fetch(s, left_sibling_id), left_sibling_id, node_id,
                                parent_id, index, fuel - 1),
                          left_sibling_id, TRUE),
                    Data(s, parent_id).page_id, TRUE)
              : left_sibling_id \in {ValueOf(Data(s, parent_id), index - 1)} })
  ELSE IF index < Data(s, parent_id).size - 1
  THEN Only({ Unpin(Unpin(Merge(Fetch(s, right_sibling_id), node_id, right_sibling_id,
                                parent_id, index + 1, fuel - 1),
                          right_sibling_id, TRUE),
                    Data(s, parent_id).page_id, TRUE)
              : right_sibling_id \in {ValueOf(Data(s, parent_id), index + 1)} })
  ELSE s

\* RedistributeOrMerge lines 228 to 239: borrow from the right sibling if it
\* has an entry to spare
BorrowFromRight(s, node_id, parent_id, index, fuel) ==
  IF index < Data(s, parent_id).size - 1
  THEN Only({ Only({ IF Data(sr, right_sibling_id).size
                          > GetMinSize(Data(sr, right_sibling_id))
                     THEN Unpin(Unpin(RedistributeRight(sr, right_sibling_id, node_id,
                                                        parent_id, index),
                                      right_sibling_id, TRUE),
                                Data(s, parent_id).page_id, TRUE)
                     ELSE MergeWithSibling(Unpin(sr, right_sibling_id, FALSE), node_id,
                                           parent_id, index, fuel)
                     : sr \in {Fetch(s, right_sibling_id)} })
              : right_sibling_id \in {ValueOf(Data(s, parent_id), index + 1)} })
  ELSE MergeWithSibling(s, node_id, parent_id, index, fuel)

\* RedistributeOrMerge lines 216 to 227: borrow from the left sibling if it has
\* an entry to spare
BorrowFromLeft(s, node_id, parent_id, index, fuel) ==
  IF index > 0
  THEN Only({ Only({ IF Data(sl, left_sibling_id).size
                          > GetMinSize(Data(sl, left_sibling_id))
                     THEN Unpin(Unpin(RedistributeLeft(sl, left_sibling_id, node_id,
                                                       parent_id, index),
                                      left_sibling_id, TRUE),
                                Data(s, parent_id).page_id, TRUE)
                     ELSE BorrowFromRight(Unpin(sl, left_sibling_id, FALSE), node_id,
                                          parent_id, index, fuel)
                     : sl \in {Fetch(s, left_sibling_id)} })
              : left_sibling_id \in {ValueOf(Data(s, parent_id), index - 1)} })
  ELSE BorrowFromRight(s, node_id, parent_id, index, fuel)

RedistributeOrMerge(s, node_id, fuel) ==
  IF IsRootPage(Data(s, node_id)) THEN s
  ELSE IF fuel = 0 THEN [s EXCEPT !.failed = TRUE]
  ELSE Only({ Only({ BorrowFromLeft(s1, node_id, parent_id,
                                    ValueIndex(Data(s1, parent_id),
                                               Data(s, node_id).page_id),
                                    fuel)
                     : s1 \in {Fetch(s, parent_id)} })
              : parent_id \in {Data(s, node_id).parent_page_id} })

\* BPlusTree::Remove; inverted reports the inverted std::move of LeafRemove
Remove(s, key) ==
  IF IsEmpty(s) THEN [s |-> s, inverted |-> FALSE]
  ELSE Only({ Only({ IF ~rm.ret THEN [s |-> r.s, inverted |-> FALSE]
                     ELSE IF rm.d.size >= GetMinSize(rm.d)
                     THEN [s |-> Put(r.s, r.page_id, rm.d), inverted |-> rm.inverted]
                     ELSE Only({ [s |-> Unpin(s2, Data(s2, r.page_id).page_id, TRUE),
                                  inverted |-> rm.inverted]
                                 : s2 \in {RedistributeOrMerge(Put(r.s, r.page_id, rm.d),
                                                               r.page_id, MaxDepth)} })
                     : rm \in {LeafRemove(Data(r.s, r.page_id), key)} })
              : r \in {FindLeaf(s, key)} })


(* ------------------------------ iterator ------------------------------ *)
\* the descent of Begin() (leftmost TRUE) and of End(): every page on the way
\* is fetched, none is unpinned
RECURSIVE Edge(_, _, _, _)
Edge(s, page_id, leftmost, fuel) ==
  IF IsLeafPage(Data(s, page_id)) THEN [s |-> s, page_id |-> page_id]
  ELSE IF fuel = 0 THEN [s |-> [s EXCEPT !.failed = TRUE], page_id |-> page_id]
  ELSE Only({ Edge(Fetch(s, child), child, leftmost, fuel - 1)
              : child \in {IF leftmost THEN ValueOf(Data(s, page_id), 0)
                           ELSE ValueOf(Data(s, page_id), Data(s, page_id).size - 1)} })

Begin(s) == Edge(Fetch(s, s.root_page_id), s.root_page_id, TRUE, MaxDepth)

End(s) ==
  Only({ [s |-> r.s, page_id |-> r.page_id, index |-> Data(r.s, r.page_id).size]
         : r \in {Edge(Fetch(s, s.root_page_id), s.root_page_id, FALSE, MaxDepth)} })

\* IndexIterator::IsEnd
IsEnd(s, it) ==
  GetNextPageId(Data(s, it.leaf)) = INVALID_PAGE_ID
  /\ it.index = Data(s, it.leaf).size - 1

\* IndexIterator::operator++
Advance(s, it) ==
  LET leaf == Data(s, it.leaf)
  IN  IF it.index = leaf.size - 1 /\ GetNextPageId(leaf) # INVALID_PAGE_ID
      THEN LET page_id == GetNextPageId(leaf)
           IN  [s |-> Fetch(Unpin(s, leaf.page_id, FALSE), page_id),
                it |-> [it EXCEPT !.leaf = page_id, !.index = 0]]
      ELSE [s |-> s, it |-> [it EXCEPT !.index = @ + 1]]

\* IndexIterator::operator==: same leaf, same index
IteratorEquals(it) == it.leaf = it.end_leaf /\ it.index = it.end_index

(***************************************************************************)
(* The tree under one caller.  The test harness allocates the header page  *)
(* (page 0) and unpins it before the tree is used.                         *)
(***************************************************************************)
\* leaf_max_size ranges over MinLeafSize..MaxLeafSize
MinLeafSize == 2
MaxLeafSize == 3
\* internal_max_size ranges over MinInternalSize..MaxInternalSize
MinInternalSize == 3
MaxInternalSize == 3
\* free frames an operation wants before it starts (one per level and a root)
FramesPerCall == 4
\* removes and gets are issued among the first MaxMixedOps calls
MaxMixedOps == 4

TreeState ==
  [pages |-> pages, free_list |-> free_list, page_table |-> page_table,
   replacer |-> replacer, next_page_id |-> next_page_id, disk |-> disk,
   root_page_id |-> root_page_id, leaf_max_size |-> leaf_max_size,
   internal_max_size |-> internal_max_size, failed |-> failed]

SetTree(s) ==
  /\ SetBpm(s)
  /\ root_page_id' = s.root_page_id
  /\ failed' = s.failed

\* what get(key) returns in the current state
Lookup(key) == GetValue(TreeState, key)

\* get agrees with the sequential map kv on every key offered
LookupAgrees ==
  \A key \in 1..MaxKey :
    IF key \in DOMAIN kv
    THEN Lookup(key).ret /\ Lookup(key).value = kv[key]
    ELSE ~Lookup(key).ret

\* get agrees with kv; an empty tree holds nothing
TreeAgrees ==
  IF root_page_id = INVALID_PAGE_ID THEN kv = << >> ELSE LookupAgrees

\* the size of every tree page allocated so far
NodeSizes == [p \in 1..(next_page_id - 1) |-> Data(TreeState, p).size]

\* the root is an internal page over exactly two leaves, each at its min size
RootOverTwoMinLeaves ==
  /\ root_page_id # INVALID_PAGE_ID
  /\ ~IsLeafPage(Data(TreeState, root_page_id))
  /\ Data(TreeState, root_page_id).size = 2
  /\ \A i \in 0..1 :
       \A c \in {ValueOf(Data(TreeState, root_page_id), i)} :
         /\ IsLeafPage(Data(TreeState, c))
         /\ Data(TreeState, c).size = GetMinSize(Data(TreeState, c))

\* history of a tree call: what held when the call was issued
TreeCalled(op, key, value, ret) ==
  [op |-> op, page_id |-> INVALID_PAGE_ID, frame_id |-> NullFrame, ret |-> ret,
   key |-> key, value |-> value,
   pre |-> [present |-> key \in DOMAIN kv, agreed |-> TreeAgrees,
            sizes |-> NodeSizes, root |-> root_page_id,
            two_min_leaves |-> RootOverTwoMinLeaves]]

\* the pool after the harness ran NewPage and UnpinPage(HEADER_PAGE_ID, true)
WithHeaderPage(s) == UnpinPgImp(NewPgImp(s).s, HEADER_PAGE_ID, TRUE).s

\* the index after construction: no root yet
InitIndex ==
  /\ pool_size = TreePoolSize
  /\ LET s == WithHeaderPage(BufferPoolManagerInstance(TreePoolSize, ReplacerK))
     IN  /\ pages = s.pages
         /\ free_list = s.free_list
         /\ page_table = s.page_table
         /\ replacer = s.replacer
         /\ next_page_id = s.next_page_id
         /\ disk = s.disk
  /\ root_page_id = INVALID_PAGE_ID
  /\ leaf_max_size \in MinLeafSize..MaxLeafSize
  /\ internal_max_size \in MinInternalSize..MaxInternalSize
  /\ kv = << >>
  /\ last = NoCall
  /\ nops = 0
  /\ failed = FALSE
  /\ iter = NoIterator

InitTree == InitIndex /\ thr = NoThreads

\* a call may start: nothing failed, no iterator is open, frames are left
CallReady ==
  /\ ~failed
  /\ ~iter.live
  /\ nops < MaxOps
  /\ Len(free_list) >= FramesPerCall

\* the record id the caller hands to its next insert: a new one each call
NextRid == nops + 1

InsertKey(key) ==
  /\ CallReady
  /\ LET r == Insert(TreeState, key, NextRid)
     IN  /\ SetTree(r.s)
         /\ last' = TreeCalled("Insert", key, NextRid, r.ret)
  /\ kv' = IF key \in DOMAIN kv THEN kv
           ELSE [k \in (DOMAIN kv) \cup {key} |-> IF k = key THEN NextRid ELSE kv[k]]
  /\ nops' = nops + 1
  /\ UNCHANGED <<pool_size, leaf_max_size, internal_max_size, iter, thr>>

\* where LeafPage::Remove hands std::move an inverted range the build decides:
\* the loop of libstdc++ moves nothing, the loop of libc++ runs off the page
RemoveKey(key) ==
  /\ CallReady
  /\ nops < MaxMixedOps
  /\ LET r == Remove(TreeState, key)
     IN  \/ /\ SetTree(r.s)
            /\ last' = TreeCalled("Remove", key, 0, TRUE)
         \/ /\ r.inverted
            /\ SetTree([r.s EXCEPT !.failed = TRUE])
            /\ last' = TreeCalled("Remove", key, 0, FALSE)
  /\ kv' = [k \in (DOMAIN kv) \ {key} |-> kv[k]]
  /\ nops' = nops + 1
  /\ UNCHANGED <<pool_size, leaf_max_size, internal_max_size, iter, thr>>

\* GetValue does not look at IsEmpty: on an empty tree FindLeaf stops at its
\* BUSTUB_ASSERT, or, with assertions compiled out, fetches page -1 and walks
\* a zeroed page
GetKey(key) ==
  /\ CallReady
  /\ nops < MaxMixedOps
  /\ \/ /\ root_page_id # INVALID_PAGE_ID
        /\ LET r == GetValue(TreeState, key)
           IN  /\ SetTree(r.s)
               /\ last' = TreeCalled("GetValue", key, r.value, r.ret)
     \/ /\ root_page_id = INVALID_PAGE_ID
        /\ SetTree([TreeState EXCEPT !.failed = TRUE])
        /\ last' = TreeCalled("GetValue", key, 0, FALSE)
     \/ /\ root_page_id = INVALID_PAGE_ID
        /\ SetTree([Fetch(TreeState, root_page_id) EXCEPT !.failed = TRUE])
        /\ last' = TreeCalled("GetValue", key, 0, FALSE)
  /\ nops' = nops + 1
  /\ UNCHANGED <<pool_size, leaf_max_size, internal_max_size, kv, iter, thr>>

\* auto it = tree.Begin(), end = tree.End()
IterBegin ==
  /\ CallReady
  /\ root_page_id # INVALID_PAGE_ID
  /\ LET b == Begin(TreeState)
         e == End(b.s)
     IN  /\ SetTree(e.s)
         /\ iter' = [live |-> TRUE, leaf |-> b.page_id, index |-> 0,
                     end_leaf |-> e.page_id, end_index |-> e.index, visited |-> << >>]
  /\ last' = TreeCalled("Begin", 0, 0, TRUE)
  /\ nops' = nops + 1
  /\ UNCHANGED <<pool_size, leaf_max_size, internal_max_size, kv, thr>>

\* one round of for (; it != end; ++it) read(*it), while it is inside the page
IterNext ==
  /\ ~failed
  /\ iter.live
  /\ ~IteratorEquals(iter)
  /\ iter.index < ArrayCap
  /\ LET read == Append(iter.visited, KeyOf(Data(TreeState, iter.leaf), iter.index))
         a == Advance(TreeState, iter)
     IN  /\ SetTree(a.s)
         /\ iter' = [a.it EXCEPT !.visited = read]
  /\ last' = TreeCalled("Next", 0, 0, TRUE)
  /\ UNCHANGED <<pool_size, leaf_max_size, internal_max_size, kv, nops, thr>>

\* the loop is over: both iterators are destroyed, each unpins its leaf
IterClose ==
  /\ ~failed
  /\ iter.live
  /\ IteratorEquals(iter)
  /\ SetTree(Unpin(Unpin(TreeState, Data(TreeState, iter.leaf).page_id, FALSE),
                   Data(TreeState, iter.end_leaf).page_id, FALSE))
  /\ iter' = [iter EXCEPT !.live = FALSE]
  /\ last' = TreeCalled("Close", 0, 0, TRUE)
  /\ UNCHANGED <<pool_size, leaf_max_size, internal_max_size, kv, nops, thr>>

NextInsert ==
  \/ \E key \in 1..MaxKey : InsertKey(key)
  \/ IterBegin
  \/ IterNext
  \/ IterClose

SpecInsert == InitTree /\ [][NextInsert]_vars

NextTree ==
  \/ \E key \in 1..MaxKey : InsertKey(key)
  \/ \E key \in 1..MaxKey : RemoveKey(key)
  \/ \E key \in 1..MaxKey : GetKey(key)

SpecTree == InitTree /\ [][NextTree]_vars

\* a run that builds a deeper tree and then shrinks it: the caller inserts
\* the keys 1, 2, ... in order during the first MaxAscendingOps calls, and
\* removes any of them from call MinLateOps + 1 to call MaxLateOps
MaxAscendingOps == 6
MinLateOps == 3
MaxLateOps == 7

InsertNextKey ==
  /\ ~failed
  /\ ~iter.live
  /\ nops < MaxAscendingOps
  /\ Len(free_list) >= FramesPerCall
  /\ LET r == Insert(TreeState, nops + 1, NextRid)
     IN  /\ SetTree(r.s)
         /\ last' = TreeCalled("Insert", nops + 1, NextRid, r.ret)
  /\ kv' = [k \in (DOMAIN kv) \cup {nops + 1} |-> IF k = nops + 1 THEN NextRid ELSE kv[k]]
  /\ nops' = nops + 1
  /\ UNCHANGED <<pool_size, leaf_max_size, internal_max_size, iter, thr>>

\* Remove allocates no page: every page it fetches is resident
RemoveKeyLate(key) ==
  /\ ~failed
  /\ ~iter.live
  /\ nops >= MinLateOps
  /\ nops < MaxLateOps
  /\ LET r == Remove(TreeState, key)
     IN  \/ /\ SetTree(r.s)
            /\ last' = TreeCalled("Remove", key, 0, TRUE)
         \/ /\ r.inverted
            /\ SetTree([r.s EXCEPT !.failed = TRUE])
            /\ last' = TreeCalled("Remove", key, 0, FALSE)
  /\ kv' = [k \in (DOMAIN kv) \ {key} |-> kv[k]]
  /\ nops' = nops + 1
  /\ UNCHANGED <<pool_size, leaf_max_size, internal_max_size, iter, thr>>

NextRemove ==
  \/ InsertNextKey
  \/ \E key \in 1..MaxAscendingOps : RemoveKeyLate(key)

SpecRemove == InitTree /\ [][NextRemove]_vars


(***************************************************************************)
(* Two callers without a latch.  The tree takes no latch anywhere, so the  *)
(* statements of Insert and of LeafPage::Insert run by different threads   *)
(* interleave; only the buffer pool's own calls are atomic (its latch_).   *)
(* The harness stores one key alone, then each thread inserts a key of its *)
(* own.  A thread's locals are pc, key, value, page_id (the pinned leaf),  *)
(* old_size, index, and reg (the size IncreaseSize loaded).                *)
(***************************************************************************)
\* threads that call Insert at the same time
NumThreads == 2

Threads == 1..NumThreads

IdleThread == [pc |-> "idle", key |-> 0, value |-> 0, page_id |-> INVALID_PAGE_ID,
               old_size |-> 0, index |-> 0, reg |-> 0, ret |-> FALSE]

InitConc == InitIndex /\ thr = [t \in Threads |-> IdleThread]

\* every step of a thread leaves the tree's parameters and the iterator alone
ThreadFrame == UNCHANGED <<pool_size, leaf_max_size, internal_max_size, iter>>

\* the harness stores the first key before any thread runs
SeedKey(key) ==
  /\ root_page_id = INVALID_PAGE_ID
  /\ InsertKey(key)

\* a thread enters Insert(key, value) with a key nobody stores or inserts
ThreadCall(t, key) ==
  /\ ~failed
  /\ root_page_id # INVALID_PAGE_ID
  /\ thr[t].pc = "idle"
  /\ key \notin DOMAIN kv
  /\ thr' = [thr EXCEPT ![t] = [IdleThread EXCEPT !.pc = "FindLeaf", !.key = key,
                                                  !.value = NextRid]]
  /\ kv' = [k \in (DOMAIN kv) \cup {key} |-> IF k = key THEN NextRid ELSE kv[k]]
  /\ nops' = nops + 1
  /\ UNCHANGED <<pages, free_list, page_table, replacer, next_page_id, disk,
                 root_page_id, failed, last>>
  /\ ThreadFrame

\* Insert lines 79 and 92 to 94: the tree is not empty, page = FindLeaf(key),
\* old_size = leaf->GetSize()
ThreadFindLeaf(t) ==
  /\ ~failed
  /\ thr[t].pc = "FindLeaf"
  /\ LET r == FindLeaf(TreeState, thr[t].key)
     IN  /\ SetTree(r.s)
         /\ thr' = [thr EXCEPT ![t].pc = "KeyIndex", ![t].page_id = r.page_id,
                               ![t].old_size = Data(r.s, r.page_id).size]
  /\ UNCHANGED <<kv, nops, last>>
  /\ ThreadFrame

\* LeafPage::Insert line 88: index = KeyIndex(key)
ThreadKeyIndex(t) ==
  /\ ~failed
  /\ thr[t].pc = "KeyIndex"
  /\ thr' = [thr EXCEPT ![t].pc = "Place",
                        ![t].index = KeyIndex(Data(TreeState, thr[t].page_id), thr[t].key)]
  /\ UNCHANGED <<pages, free_list, page_table, replacer, next_page_id, disk,
                 root_page_id, failed, kv, nops, last>>
  /\ ThreadFrame

\* LeafPage::Insert lines 89 to 98: the entry goes into array_[index], behind
\* the last entry or after moving the entries from index on one slot up
ThreadPlace(t) ==
  /\ ~failed
  /\ thr[t].pc = "Place"
  /\ LET d == Data(TreeState, thr[t].page_id)
         index == thr[t].index
         entry == <<thr[t].key, thr[t].value>>
     IN  IF index = d.size
         THEN /\ SetTree(Put(TreeState, thr[t].page_id, [d EXCEPT !.array[index + 1] = entry]))
              /\ thr' = [thr EXCEPT ![t].pc = "LoadSize"]
         ELSE IF KeyOf(d, index) = thr[t].key
              THEN /\ SetTree(TreeState)
                   /\ thr' = [thr EXCEPT ![t].pc = "Return"]
              ELSE /\ SetTree(Put(TreeState, thr[t].page_id,
                                  [d EXCEPT !.array = [ShiftRight(d.array, index, d.size)
                                                         EXCEPT ![index + 1] = entry]]))
                   /\ thr' = [thr EXCEPT ![t].pc = "LoadSize"]
  /\ UNCHANGED <<kv, nops, last>>
  /\ ThreadFrame

\* IncreaseSize(1), lines 91 and 99, is a load of size_ ...
ThreadLoadSize(t) ==
  /\ ~failed
  /\ thr[t].pc = "LoadSize"
  /\ thr' = [thr EXCEPT ![t].pc = "StoreSize",
                        ![t].reg = Data(TreeState, thr[t].page_id).size]
  /\ UNCHANGED <<pages, free_list, page_table, replacer, next_page_id, disk,
                 root_page_id, failed, kv, nops, last>>
  /\ ThreadFrame

\* ... and a store of the loaded value plus one
ThreadStoreSize(t) ==
  /\ ~failed
  /\ thr[t].pc = "StoreSize"
  /\ LET d == Data(TreeState, thr[t].page_id)
     IN  SetTree(Put(TreeState, thr[t].page_id, [d EXCEPT !.size = thr[t].reg + 1]))
  /\ thr' = [thr EXCEPT ![t].pc = "Return"]
  /\ UNCHANGED <<kv, nops, last>>
  /\ ThreadFrame

\* LeafPage::Insert returns GetSize(); Insert lines 96 to 113
ThreadReturn(t) ==
  /\ ~failed
  /\ thr[t].pc = "Return"
  /\ LET r == FinishInsert(TreeState, thr[t].page_id, thr[t].old_size,
                           Data(TreeState, thr[t].page_id).size)
     IN  /\ SetTree(r.s)
         /\ thr' = [thr EXCEPT ![t].pc = "done", ![t].ret = r.ret]
         /\ last' = TreeCalled("Insert", thr[t].key, thr[t].value, r.ret)
  /\ UNCHANGED <<kv, nops>>
  /\ ThreadFrame

NextConc ==
  \/ \E key \in 1..MaxKey : SeedKey(key)
  \/ \E t \in Threads, key \in 1..MaxKey : ThreadCall(t, key)
  \/ \E t \in Threads : ThreadFindLeaf(t)
  \/ \E t \in Threads : ThreadKeyIndex(t)
  \/ \E t \in Threads : ThreadPlace(t)
  \/ \E t \in Threads : ThreadLoadSize(t)
  \/ \E t \in Threads : ThreadStoreSize(t)
  \/ \E t \in Threads : ThreadReturn(t)

SpecConc == InitConc /\ [][NextConc]_vars


(***************************************************************************)
(* Claims.                                                                 *)
(***************************************************************************)
\* C1: after any sequence of inserts (no remove), get(k) returns the value
\* first inserted for every stored key k and absent for every other key
C1_InsertThenLookup ==
  (~failed /\ root_page_id # INVALID_PAGE_ID) => LookupAgrees

\* a tree of height three, built by five inserts whose last one split a leaf
\* and then the internal page above it, answers every lookup
C1_CascadingSplit ==
  /\ ~failed
  /\ last.op = "Insert"
  /\ Cardinality(DOMAIN kv) = 5
  /\ root_page_id # INVALID_PAGE_ID
  /\ ~IsLeafPage(Data(TreeState, root_page_id))
  /\ ~IsLeafPage(Data(TreeState, ValueOf(Data(TreeState, root_page_id), 0)))
  /\ LookupAgrees

\* the keys a sequential map would hold, ascending
StoredKeys ==
  [i \in 1..Cardinality(DOMAIN kv) |->
     CHOOSE k \in DOMAIN kv : Cardinality({j \in DOMAIN kv : j < k}) = i - 1]

IsPrefix(a, b) == Len(a) <= Len(b) /\ SubSeq(b, 1, Len(a)) = a

AllUnpinned == \A f \in DOMAIN pages : pages[f].pin_count = 0

\* the root the header page records for the index, as a set (one record)
HeaderRoots ==
  LET rec == Data(TreeState, HEADER_PAGE_ID).records
  IN  {rec[i][2] : i \in {j \in DOMAIN rec : rec[j][1] = IndexName}}

\* C2: a remove of a stored key, run on a tree that answered every lookup,
\* leaves a tree in which that key is absent and every other stored key is
\* still found with its value
C2_RemoveThenLookup ==
  (~failed /\ last.op = "Remove" /\ last.pre.agreed /\ last.pre.present)
    => TreeAgrees

\* C3: insert returns true exactly when the key was not stored before the
\* call; a false return leaves the stored pairs as they were
C3_InsertReturnValue ==
  (~failed /\ last.op = "Insert" /\ last.pre.agreed)
    => /\ last.ret <=> ~last.pre.present
       /\ TreeAgrees

\* C4: an iteration from Begin() reads the stored keys in ascending order,
\* each once, and has read all of them when it equals End()
C4_OrderedIteration ==
  (~failed /\ iter.live)
    => /\ IsPrefix(iter.visited, StoredKeys)
       /\ IteratorEquals(iter) => iter.visited = StoredKeys

\* C5: a remove of a key that is not stored changes neither the stored pairs
\* nor any node's size nor root_page_id
C5_RemoveAbsentIsNoOp ==
  (last.op = "Remove" /\ last.pre.agreed /\ ~last.pre.present)
    => /\ ~failed
       /\ TreeAgrees
       /\ NodeSizes = last.pre.sizes
       /\ root_page_id = last.pre.root

\* C6: after a completed get, insert or remove no frame of the pool is pinned
C6_PinDiscipline ==
  (~failed /\ last.op \in {"Insert", "Remove", "GetValue"}) => AllUnpinned

\* C7: get on an empty tree returns absent, fetches no page and does not fail
C7_GetOnEmptyTree ==
  (last.op = "GetValue" /\ last.pre.root = INVALID_PAGE_ID)
    => /\ ~failed
       /\ ~last.ret
       /\ AllUnpinned
       /\ Len(free_list) = TreePoolSize - 1

\* C8: once a remove has left no key stored, root_page_id is INVALID_PAGE_ID
\* and the header page records it
C8_EmptyTreeClearsRoot ==
  (~failed /\ last.op = "Remove" /\ kv = << >>)
    => /\ root_page_id = INVALID_PAGE_ID
       /\ HeaderRoots \subseteq {INVALID_PAGE_ID}

\* the entries the leaves hold, counted by their sizes
RECURSIVE LeafSizesFrom(_)
LeafSizesFrom(p) ==
  IF p >= next_page_id THEN 0
  ELSE (IF IsLeafPage(Data(TreeState, p)) THEN Data(TreeState, p).size ELSE 0)
       + LeafSizesFrom(p + 1)

AllReturned == \A t \in DOMAIN thr : thr[t].pc = "done"

\* C9: when every thread's insert has returned, the tree is what some
\* sequential order of the inserts leaves: every key inserted is found with
\* its value, and the leaves' sizes count each of them once
C9_InsertsSerialized ==
  (~failed /\ thr # NoThreads /\ AllReturned)
    => /\ TreeAgrees
       /\ LeafSizesFrom(1) = Cardinality(DOMAIN kv)

\* the pages the page table holds, the frame of each, and those nobody pins
ResidentPages == {p \in 0..MaxPageId : HashFind(page_table, p).found}

FrameOfPage(p) == HashFind(page_table, p).value

UnpinnedPages == {p \in ResidentPages : pages[FrameOfPage(p)].pin_count = 0}

\* no frame is free and every resident page is pinned
PinExhausted == free_list = << >> /\ UnpinnedPages = {}

\* C10: while no frame is free and every resident page is pinned, new_page
\* and fetch_page of a page that is not resident return absent and leave the
\* frames, the page table, the replacer and next_page_id as they were; once
\* unpin_page has brought one page's pin_count to 0, new_page succeeds and
\* puts the new page into that page's frame
C10_PinExhaustion ==
  /\ PinExhausted
       => /\ NewPgImp(BpmState)
               = [s |-> BpmState, frame_id |-> NullFrame, page_id |-> INVALID_PAGE_ID]
          /\ \A p \in (0..MaxPageId) \ ResidentPages :
               FetchPgImp(BpmState, p) = [s |-> BpmState, frame_id |-> NullFrame]
  /\ \A p \in ResidentPages :
       (free_list = << >> /\ UnpinnedPages = {p})
         => /\ NewPgImp(BpmState).frame_id = FrameOfPage(p)
            /\ NewPgImp(BpmState).page_id = next_page_id
            /\ NewPgImp(BpmState).s.pages[FrameOfPage(p)].page_id = next_page_id
            /\ NewPgImp(BpmState).s.pages[FrameOfPage(p)].pin_count = 1
            /\ HashFind(NewPgImp(BpmState).s.page_table, next_page_id)
                 = [found |-> TRUE, value |-> FrameOfPage(p)]
            /\ p # next_page_id => ~HashFind(NewPgImp(BpmState).s.page_table, p).found

\* unpin_page has just brought the pin_count of one page of an exhausted pool to 0
C10_UnpinAfterExhaustion ==
  /\ last.op \in {"UnpinPage", "UnpinPageDirty"}
  /\ last.ret
  /\ free_list = << >>
  /\ UnpinnedPages = {last.page_id}
  /\ Cardinality(ResidentPages) = PoolSize

\* frames somebody pins, and the frames whose replacer record is evictable
PinnedFrames == {f \in DOMAIN pages : pages[f].pin_count > 0}

EvictableIn(rep) ==
  {rep.temp_pool[i].id : i \in {j \in DOMAIN rep.temp_pool : rep.temp_pool[j].evictable}}
  \cup {rep.cache_pool[i].id : i \in {j \in DOMAIN rep.cache_pool :
                                         rep.cache_pool[j].evictable}}

EvictableFrames == EvictableIn(replacer)

\* C11: a frame with pin_count > 0 holds a page the page table maps to it, is
\* not on the free list and is not evictable; the replacer does not choose it,
\* new_page and fetch_page do not take it, and delete_page of its page
\* returns false and changes nothing
C11_PinnedNeverEvicted ==
  \A f \in PinnedFrames :
    /\ HashFind(page_table, pages[f].page_id) = [found |-> TRUE, value |-> f]
    /\ f \notin Range(free_list)
    /\ f \notin EvictableFrames
    /\ Evict(replacer).frame_id # f
    /\ TakeFrame(BpmState).frame_id # f
    /\ DeletePgImp(BpmState, pages[f].page_id) = [s |-> BpmState, ret |-> FALSE, ok |-> TRUE]

\* a page pinned twice was unpinned once: it is still pinned while no frame is
\* free and another page can be evicted
C11_StillPinnedAfterUnpin ==
  /\ last.op \in {"UnpinPage", "UnpinPageDirty"}
  /\ last.ret
  /\ FrameOfPage(last.page_id) \in PinnedFrames
  /\ free_list = << >>
  /\ EvictableFrames # {}

\* the bytes the last reported write left in page p, and the bytes the pool
\* holds for p: the frame's when p is resident, else the disk's
ReportedBytes(p) == [ZeroData EXCEPT !.page_type = IF p \in DOMAIN kv THEN kv[p] ELSE 0]

PageBytes(s, p) ==
  IF HashFind(s.page_table, p).found
  THEN s.pages[HashFind(s.page_table, p).value].data
  ELSE ReadPage(s.disk, p)

\* C12: without delete_page, a dirty victim is on disk under its old page id
\* once its frame is taken for reuse, and fetch_page(p) returns the bytes of
\* the last write to p whose caller unpinned with is_dirty = true
C12_DirtyWriteBackRoundTrip ==
  /\ \A f \in DOMAIN pages :
       (TakeFrame(BpmState).frame_id = f /\ free_list = << >> /\ pages[f].is_dirty)
         => /\ pages[f].page_id \in DOMAIN TakeFrame(BpmState).s.disk
            /\ TakeFrame(BpmState).s.disk[pages[f].page_id] = pages[f].data
  /\ \A p \in 0..(next_page_id - 1) :
       /\ PageBytes(BpmState, p) = ReportedBytes(p)
       /\ FetchPgImp(BpmState, p).frame_id # NullFrame
            => FetchPgImp(BpmState, p).s.pages[FetchPgImp(BpmState, p).frame_id].data
                 = ReportedBytes(p)

\* fetch_page has just read back from disk (the replacer counts one access of
\* the frame) a page whose last reported write stored a nonzero byte
C12_FetchedBackFromDisk ==
  /\ last.op = "FetchPage"
  /\ last.ret
  /\ last.page_id \in DOMAIN kv
  /\ kv[last.page_id] # 0
  /\ \E i \in DOMAIN replacer.temp_pool :
       replacer.temp_pool[i].id = last.frame_id /\ replacer.temp_pool[i].times = 1
  /\ pages[last.frame_id].data = ReportedBytes(last.page_id)

\* what unpin_page(page_id, is_dirty) is to do to the frame f of a resident,
\* pinned page: r is what UnpinPgImp returned
UnpinEffect(r, f, is_dirty) ==
  /\ r.ret
  /\ r.s.pages = [pages EXCEPT ![f].pin_count = @ - 1,
                               ![f].is_dirty = @ \/ is_dirty]
  /\ f \in EvictableIn(r.s.replacer) <=> pages[f].pin_count = 1
  /\ EvictableIn(r.s.replacer) \ {f} = EvictableFrames \ {f}
  /\ r.s.free_list = free_list
  /\ r.s.page_table = page_table
  /\ r.s.next_page_id = next_page_id
  /\ r.s.disk = disk

\* C13: unpin_page returns false and changes nothing when the page is not
\* resident or its pin_count is 0; otherwise it returns true, decrements
\* pin_count by one, makes the frame evictable exactly when the count reached
\* 0, sets is_dirty when the hint is true and never clears it
C13_UnpinPage ==
  \A p \in 0..MaxPageId, d \in BOOLEAN :
    IF p \in ResidentPages /\ pages[FrameOfPage(p)].pin_count > 0
    THEN UnpinEffect(UnpinPgImp(BpmState, p, d), FrameOfPage(p), d)
    ELSE UnpinPgImp(BpmState, p, d) = [s |-> BpmState, ret |-> FALSE]

\* the last pin of a dirty page was released with is_dirty = false, and the
\* page is still dirty
C13_CleanUnpinOfDirtyPage ==
  /\ last.op = "UnpinPage"
  /\ last.ret
  /\ last.page_id \in ResidentPages
  /\ pages[FrameOfPage(last.page_id)].pin_count = 0
  /\ pages[FrameOfPage(last.page_id)].is_dirty
  /\ FrameOfPage(last.page_id) \in EvictableFrames

\* what delete_page is to do to the frame f of a resident, unpinned page p:
\* r is what DeletePgImp returned
DeleteEffect(r, p, f) ==
  /\ r.ret
  /\ ~HashFind(r.s.page_table, p).found
  /\ PosIn(r.s.replacer.temp_pool, f) = 0
  /\ PosIn(r.s.replacer.cache_pool, f) = 0
  /\ r.s.pages[f].data = ZeroData
  /\ r.s.pages[f].page_id = INVALID_PAGE_ID
  /\ ~r.s.pages[f].is_dirty
  /\ Cardinality({i \in DOMAIN r.s.free_list : r.s.free_list[i] = f}) = 1

\* C14: delete_page returns true and changes nothing when the page is not
\* resident, returns false and changes nothing when it is pinned; otherwise
\* it returns true, the page table entry and the replacer record are gone,
\* and the frame has a zeroed buffer, page_id = INVALID_PAGE_ID, is not dirty
\* and is on the free list exactly once
C14_DeletePage ==
  \A p \in 0..MaxPageId :
    IF p \notin ResidentPages
    THEN DeletePgImp(BpmState, p).s = BpmState /\ DeletePgImp(BpmState, p).ret
    ELSE IF pages[FrameOfPage(p)].pin_count > 0
         THEN DeletePgImp(BpmState, p).s = BpmState /\ ~DeletePgImp(BpmState, p).ret
         ELSE DeleteEffect(DeletePgImp(BpmState, p), p, FrameOfPage(p))

\* every page of the page table of s is on disk as its frame holds it, and
\* its frame is not dirty
AllFlushed(s) ==
  \A p \in 0..MaxPageId :
    HashFind(s.page_table, p).found
      => /\ ReadPage(s.disk, p) = s.pages[HashFind(s.page_table, p).value].data
         /\ p \in DOMAIN s.disk
         /\ ~s.pages[HashFind(s.page_table, p).value].is_dirty

\* C15: after flush_all_pages the disk copy of every resident page equals
\* the bytes of its frame and its frame is not dirty
C15_FlushAllPages == AllFlushed(FlushAllPgsImp(BpmState))

\* the pool after n more new_page calls
RECURSIVE NewPages(_, _)
NewPages(s, n) == IF n = 0 THEN s ELSE NewPages(NewPgImp(s).s, n - 1)

\* C16: new_page returns next_page_id and moves it up by one, no other call
\* changes it, and every page id a frame holds is below it, so the ids
\* returned are strictly increasing and the id of a deleted page is not
\* returned again; pool_size new_page calls after delete_page(p) leave p out
\* of the page table (p a page id new_page has returned)
C16_PageIdsNeverReused ==
  /\ IF NewPgImp(BpmState).frame_id = NullFrame
     THEN NewPgImp(BpmState).s.next_page_id = next_page_id
     ELSE /\ NewPgImp(BpmState).page_id = next_page_id
          /\ NewPgImp(BpmState).s.next_page_id = next_page_id + 1
  /\ \A p \in 0..MaxPageId :
       /\ FetchPgImp(BpmState, p).s.next_page_id = next_page_id
       /\ UnpinPgImp(BpmState, p, TRUE).s.next_page_id = next_page_id
       /\ FlushPgImp(BpmState, p).s.next_page_id = next_page_id
       /\ DeletePgImp(BpmState, p).s.next_page_id = next_page_id
  /\ FlushAllPgsImp(BpmState).next_page_id = next_page_id
  /\ \A f \in DOMAIN pages : pages[f].page_id < next_page_id
  /\ \A p \in ResidentPages : p < next_page_id
  /\ (last.op = "DeletePage" /\ last.ret /\ last.page_id < next_page_id)
       => \A n \in 0..PoolSize :
            ~HashFind(NewPages(BpmState, n).page_table, last.page_id).found

\* new_page has returned a page id while the frame of a deleted page, with a
\* smaller page id, is still on the free list
C16_NewPageAfterDelete ==
  /\ last.op = "NewPage"
  /\ last.ret
  /\ \E i \in DOMAIN free_list :
       /\ pages[free_list[i]].page_id # INVALID_PAGE_ID
       /\ pages[free_list[i]].page_id < last.page_id

\* C17: flush_all_pages takes effect atomically like the other operations:
\* the page id it writes a frame under is the page id the frame holds, and
\* the pool holds for every page the bytes of the last reported write, as
\* it does when every operation runs under the latch
C17_FlushAllAtomic ==
  /\ thr.pc \in {"write", "clear"} => pages[thr.index].page_id = thr.page_id
  /\ \A p \in 0..(next_page_id - 1) : PageBytes(BpmState, p) = ReportedBytes(p)

\* the frames the page table maps a page to
ResidentFrames == {FrameOfPage(p) : p \in ResidentPages}

\* pin_count summed over the resident frames among frames 0..n-1
RECURSIVE PinCountSum(_)
PinCountSum(n) ==
  IF n = 0 THEN 0
  ELSE PinCountSum(n - 1)
       + (IF (n - 1) \in ResidentFrames THEN pages[n - 1].pin_count ELSE 0)

\* C18 as stated: the sum of pin_count over the resident frames plus the
\* length of the free list is at most pool_size
C18_PinSumBound == PinCountSum(pool_size) + Len(free_list) <= pool_size

\* C18 amended: the number of resident frames with pin_count > 0 plus the
\* length of the free list is at most pool_size
C18_PinnedFramesBound ==
  Cardinality(ResidentFrames \cap PinnedFrames) + Len(free_list) <= pool_size

\* every frame is resident and pinned, one of them twice, and none is free
C18_AllFramesPinned ==
  /\ free_list = << >>
  /\ ResidentFrames \cap PinnedFrames = DOMAIN pages
  /\ \E f \in DOMAIN pages : pages[f].pin_count = MaxPin

\* C19: no two distinct frames of the frame array have the same page_id
\* other than INVALID_PAGE_ID
C19_OneFramePerPage ==
  \A f, g \in DOMAIN pages :
    (f # g /\ pages[f].page_id = pages[g].page_id) => pages[f].page_id = INVALID_PAGE_ID

\* from the log of accesses: how often frame f was accessed since its record
\* was created, and the positions of its first and of its last access
AccessCount(f) == Cardinality({i \in DOMAIN kv : kv[i] = f})

FirstAccess(f) == SetMin({i \in DOMAIN kv : kv[i] = f})

LastAccess(f) == -SetMin({-i : i \in {j \in DOMAIN kv : kv[j] = f}})

EvictableHistory ==
  {f \in EvictableFrames : AccessCount(f) \in 1..(replacer.k - 1)}

EvictableCache ==
  {f \in EvictableFrames : AccessCount(f) >= replacer.k}

\* C20: evict returns the evictable frame with fewer than k accesses whose
\* first access is oldest, if there is one; otherwise the evictable frame
\* with k or more accesses whose last access is oldest; otherwise nothing,
\* changing nothing.  The record of the frame it returns is removed and the
\* other records stay, and the next record_access of the frame creates a
\* history record with count 1
C20_EvictSelection ==
  /\ IF EvictableHistory # {}
     THEN /\ Evict(replacer).ret
          /\ Evict(replacer).frame_id \in EvictableHistory
          /\ \A g \in EvictableHistory :
               FirstAccess(Evict(replacer).frame_id) <= FirstAccess(g)
     ELSE IF EvictableCache # {}
          THEN /\ Evict(replacer).ret
               /\ Evict(replacer).frame_id \in EvictableCache
               /\ \A g \in EvictableCache :
                    LastAccess(Evict(replacer).frame_id) <= LastAccess(g)
          ELSE Evict(replacer) = [rep |-> replacer, ret |-> FALSE, frame_id |-> NullFrame]
  /\ Evict(replacer).ret
       => /\ PosIn(Evict(replacer).rep.temp_pool, Evict(replacer).frame_id) = 0
          /\ PosIn(Evict(replacer).rep.cache_pool, Evict(replacer).frame_id) = 0
          /\ Evict(replacer).rep.temp_pool
               = SelectSeq(replacer.temp_pool, LAMBDA e : e.id # Evict(replacer).frame_id)
          /\ Evict(replacer).rep.cache_pool
               = SelectSeq(replacer.cache_pool, LAMBDA e : e.id # Evict(replacer).frame_id)
          /\ \E i \in DOMAIN RecordAccess(Evict(replacer).rep,
                                           Evict(replacer).frame_id).temp_pool :
               RecordAccess(Evict(replacer).rep, Evict(replacer).frame_id).temp_pool[i]
                 = [id |-> Evict(replacer).frame_id, times |-> 1, evictable |-> TRUE]

\* k = 2: six calls, accesses 1, 2, 1, 2 in this order and one access of 3,
\* then an evict, which returned 3 from history while 1 and 2 are in cache
C20_EvictThreeFromHistory ==
  /\ replacer.k = 2
  /\ last.op = "Evict"
  /\ last.ret
  /\ last.frame_id = 3
  /\ kv = <<1, 2, 1, 2>>
  /\ nops = 6
  /\ EvictableFrames = {1, 2}

\* the evictable frames of temp_pool_ (history) and of cache_pool_
EvictableInHistory ==
  {replacer.temp_pool[i].id :
     i \in {j \in DOMAIN replacer.temp_pool : replacer.temp_pool[j].evictable}}

EvictableInCache ==
  {replacer.cache_pool[i].id :
     i \in {j \in DOMAIN replacer.cache_pool : replacer.cache_pool[j].evictable}}

\* C21 as stated: evict never returns a frame while another evictable frame
\* of the same list has an older most recent access, and never returns a
\* cache frame while a history frame is evictable
C21_LeastRecentlyUsedFirst ==
  Evict(replacer).ret
    => /\ Evict(replacer).frame_id \in EvictableInHistory
            => \A g \in EvictableInHistory :
                 LastAccess(Evict(replacer).frame_id) <= LastAccess(g)
       /\ Evict(replacer).frame_id \in EvictableInCache
            => /\ EvictableInHistory = {}
               /\ \A g \in EvictableInCache :
                    LastAccess(Evict(replacer).frame_id) <= LastAccess(g)

\* C21 amended: evict never returns a history frame while another evictable
\* history frame has an older first access, never returns a cache frame
\* while another evictable cache frame has an older most recent access, and
\* never returns a cache frame while a history frame is evictable
C21_EvictionOrder ==
  /\ Evict(replacer).ret <=> EvictableInHistory \cup EvictableInCache # {}
  /\ Evict(replacer).ret
       => /\ Evict(replacer).frame_id \in EvictableInHistory \cup EvictableInCache
          /\ Evict(replacer).frame_id \in EvictableInHistory
               => \A g \in EvictableInHistory :
                    FirstAccess(Evict(replacer).frame_id) <= FirstAccess(g)
          /\ Evict(replacer).frame_id \in EvictableInCache
               => /\ EvictableInHistory = {}
                  /\ \A g \in EvictableInCache :
                       LastAccess(Evict(replacer).frame_id) <= LastAccess(g)

\* k = 3, accesses 1, 2, 1: both frames are evictable history records, frame 1
\* has the older first access and the younger last access, and evict takes it
C21_OlderFirstYoungerLast ==
  /\ replacer.k = 3
  /\ last.op = "RecordAccess"
  /\ kv = <<1, 2, 1>>
  /\ EvictableInHistory = {1, 2}
  /\ Evict(replacer).frame_id = 1

\* the frames the replacer tracks
TrackedFrames ==
  {replacer.temp_pool[i].id : i \in DOMAIN replacer.temp_pool}
  \cup {replacer.cache_pool[i].id : i \in DOMAIN replacer.cache_pool}

\* C22: size() is the number of tracked frames whose evictable flag is
\* true; set_evictable on a frame the replacer does not track changes
\* nothing; a successful evict or remove lowers size() by exactly one
C22_ReplacerSize ==
  /\ ReplacerSize(replacer) = Cardinality(EvictableInHistory \cup EvictableInCache)
  /\ \A f \in (1..LruFrames) \ TrackedFrames, b \in BOOLEAN :
       SetEvictable(replacer, f, b) = replacer
  /\ IF Evict(replacer).ret
     THEN ReplacerSize(Evict(replacer).rep) = ReplacerSize(replacer) - 1
     ELSE ReplacerSize(replacer) = 0 /\ Evict(replacer).rep = replacer
  /\ \A f \in EvictableInHistory \cup EvictableInCache :
       /\ LRUKRemove(replacer, f).ok
       /\ ReplacerSize(LRUKRemove(replacer, f).rep) = ReplacerSize(replacer) - 1

\* evict has taken a frame; of the two frames still tracked the one in
\* history is not evictable and the one in cache is: size() is 1
C22_SizeAfterEvict ==
  /\ last.op = "Evict"
  /\ last.ret
  /\ Cardinality(TrackedFrames) = 2
  /\ Cardinality(EvictableInCache) = 1
  /\ EvictableInHistory = {}
  /\ Len(replacer.temp_pool) = 1
  /\ ReplacerSize(replacer) = 1

\* C23: remove of a tracked evictable frame deletes its record, so that its
\* next access counts from 1; remove of a tracked frame that is not
\* evictable fails its precondition and deletes nothing; remove of an
\* untracked frame does nothing; and no buffer-pool call fails that
\* precondition
C23_ReplacerRemove ==
  /\ \A f \in DOMAIN pages : \A r \in {LRUKRemove(replacer, f)} :
       IF f \in EvictableInHistory \cup EvictableInCache
       THEN /\ r.ok
            /\ PosIn(r.rep.temp_pool, f) = 0
            /\ PosIn(r.rep.cache_pool, f) = 0
            /\ r.rep.temp_pool = SelectSeq(replacer.temp_pool, LAMBDA e : e.id # f)
            /\ r.rep.cache_pool = SelectSeq(replacer.cache_pool, LAMBDA e : e.id # f)
            /\ RecordAccess(r.rep, f).temp_pool
                 = Append(r.rep.temp_pool, [id |-> f, times |-> 1, evictable |-> TRUE])
       ELSE IF f \in TrackedFrames
            THEN r = [rep |-> replacer, ok |-> FALSE]
            ELSE r = [rep |-> replacer, ok |-> TRUE]
  /\ ~failed
  /\ \A p \in 0..MaxPageId : DeletePgImp(BpmState, p).ok

\* delete_page has removed the record of its page's frame, which is now
\* untracked, while the other frame is tracked and not evictable
C23_RemovedByDeletePage ==
  /\ last.op = "DeletePage"
  /\ last.ret
  /\ \E i \in DOMAIN free_list :
       /\ pages[free_list[i]].page_id = last.page_id
       /\ free_list[i] \notin TrackedFrames
  /\ TrackedFrames # {}
  /\ EvictableInHistory \cup EvictableInCache = {}

\* the entries of table ht: <<bucket, position in its list>>
Entries(ht) ==
  {e \in (DOMAIN ht.buckets) \X (1..ht.bucket_size) : e[2] <= Len(ht.buckets[e[1]].list)}

\* C24: find(k) returns the value of the last insert of k not followed by
\* remove(k) and nothing otherwise; the table holds one entry per stored
\* key, in the bucket the directory gives for the key; insert of a stored
\* key overwrites without adding an entry; remove(k) returns true exactly
\* when k is stored
C24_HashTableIsMap ==
  /\ \A k \in 0..MaxHashKey :
       /\ HashFind(page_table, k).found <=> k \in DOMAIN kv
       /\ k \in DOMAIN kv => HashFind(page_table, k).value = kv[k]
       /\ HashRemove(page_table, k).ret <=> k \in DOMAIN kv
       /\ k \in DOMAIN kv
            => \A v \in 1..MaxHashValue :
                 /\ Cardinality(Entries(HashInsert(page_table, k, v)))
                      = Cardinality(Entries(page_table))
                 /\ HashFind(HashInsert(page_table, k, v), k) = [found |-> TRUE, value |-> v]
  /\ Cardinality(Entries(page_table)) = Cardinality(DOMAIN kv)
  /\ \A e \in Entries(page_table) :
       page_table.dir[IndexOf(page_table, page_table.buckets[e[1]].list[e[2]][1]) + 1] = e[1]

\* after the directory has doubled at least twice a remove returned true,
\* and keys are still stored
C24_RemoveAfterDoubling ==
  /\ page_table.global_depth >= 2
  /\ last.op = "Remove"
  /\ last.ret
  /\ Cardinality(DOMAIN kv) >= 2

\* C25: no bucket holds more than bucket_size entries; a table that stores
\* more than bucket_size keys has global_depth >= 1 and num_buckets >= 2,
\* and finds every stored key
C25_GrowthOnOverflow ==
  /\ \A b \in DOMAIN page_table.buckets :
       Len(page_table.buckets[b].list) <= page_table.bucket_size
  /\ Cardinality(DOMAIN kv) > page_table.bucket_size
       => /\ page_table.global_depth >= 1
          /\ page_table.num_buckets >= 2
          /\ Cardinality(DOMAIN page_table.buckets) >= 2
          /\ \A k \in DOMAIN kv : HashFind(page_table, k) = [found |-> TRUE, value |-> kv[k]]

\* bucket_size = 2: the third of three inserts of different keys has just
\* overflowed the only bucket
C25_ThirdKeySplits ==
  /\ page_table.bucket_size = 2
  /\ last.op = "Insert"
  /\ nops = 3
  /\ Cardinality(DOMAIN kv) = 3
  /\ page_table.global_depth >= 1

\* C26: every frame whose page_id is not INVALID_PAGE_ID is the value of
\* the page table entry of that page_id, and no page table entry references
\* a frame of the free list
C26_DirectoryConsistency ==
  /\ \A f \in DOMAIN pages :
       pages[f].page_id # INVALID_PAGE_ID
         => HashFind(page_table, pages[f].page_id) = [found |-> TRUE, value |-> f]
  /\ \A p \in ResidentPages : FrameOfPage(p) \notin Range(free_list)

\* C27: a remove of a stored key from a tree whose internal root has exactly
\* two leaf children, each at min size, leaves the merged leaf as the root:
\* root_page_id changed to a leaf whose parent_page_id is INVALID_PAGE_ID and
\* which holds the remaining keys, and the header page records that root
C27_RootCollapse ==
  (~failed /\ last.op = "Remove" /\ last.pre.agreed /\ last.pre.present
     /\ last.pre.two_min_leaves)
    => /\ root_page_id # last.pre.root
       /\ root_page_id # INVALID_PAGE_ID
       /\ IsLeafPage(Data(TreeState, root_page_id))
       /\ IsRootPage(Data(TreeState, root_page_id))
       /\ Data(TreeState, root_page_id).size = Cardinality(DOMAIN kv)
       /\ HeaderRoots = {root_page_id}

\* the entries of a leaf, in slot order
LeafEntries(d) == SubSeq(d.array, 1, d.size)

\* remove(key) takes key from leaf l, the child at index of parent p, and
\* leaves it under min size; its left sibling, if any, has nothing to spare
\* and its right sibling r has
BorrowsFromRight(key, l, p, index, r) ==
  /\ LeafLookup(Data(TreeState, l), key).found
  /\ ~IsRootPage(Data(TreeState, l))
  /\ Data(TreeState, l).size - 1 < GetMinSize(Data(TreeState, l))
  /\ index > 0 =>
       \A left \in {ValueOf(Data(TreeState, p), index - 1)} :
         Data(TreeState, left).size <= GetMinSize(Data(TreeState, left))
  /\ index < Data(TreeState, p).size - 1
  /\ r = ValueOf(Data(TreeState, p), index + 1)
  /\ Data(TreeState, r).size > GetMinSize(Data(TreeState, r))

\* C28: when a remove leaves a leaf under min size, its left sibling cannot
\* lend and its right sibling has more than min size, then after the remove
\* the right sibling holds its former entries but the first, in order, the
\* borrowing leaf ends with that first entry, and the parent's key at
\* index + 1 is the right sibling's new first key
C28_RedistributeFromRight ==
  (~failed /\ root_page_id # INVALID_PAGE_ID /\ TreeAgrees)
    => \A key \in DOMAIN kv :
         \A l \in {FindLeaf(TreeState, key).page_id} :
           \A p \in {Data(TreeState, l).parent_page_id} \ {INVALID_PAGE_ID} :
             \A index \in {ValueIndex(Data(TreeState, p), l)} :
               \A r \in 1..(next_page_id - 1) :
                 BorrowsFromRight(key, l, p, index, r)
                   => \A s2 \in {Remove(TreeState, key).s} :
                        /\ LeafEntries(Data(s2, r)) = Tail(LeafEntries(Data(TreeState, r)))
                        /\ Data(s2, l).size >= 1
                        /\ Data(s2, l).array[Data(s2, l).size]
                             = Head(LeafEntries(Data(TreeState, r)))
                        /\ KeyOf(Data(s2, p), index + 1) = KeyOf(Data(s2, r), 0)

\* the pages of the subtree under page p, followed through the child slots
\* [0, size) of its internal pages
RECURSIVE Subtree(_, _)
Subtree(p, fuel) ==
  IF fuel = 0 \/ p \notin 1..(next_page_id - 1) THEN {}
  ELSE IF IsLeafPage(Data(TreeState, p)) THEN {p}
  ELSE {p} \cup UNION { Subtree(ValueOf(Data(TreeState, p), i), fuel - 1) :
                          i \in 0..(Data(TreeState, p).size - 1) }

TreeNodes ==
  IF root_page_id = INVALID_PAGE_ID THEN {} ELSE Subtree(root_page_id, MaxDepth)

\* C29: after a completed insert or remove every node of the tree but the
\* root, leaf or internal, has min_size <= size <= max_size
C29_NodeOccupancy ==
  (~failed /\ last.op \in {"Insert", "Remove"})
    => \A p \in TreeNodes \ {root_page_id} :
         /\ Data(TreeState, p).size >= GetMinSize(Data(TreeState, p))
         /\ Data(TreeState, p).size <= Data(TreeState, p).max_size

\* C30: after a completed insert or remove every page in the slots
\* [0, size) of an internal node of the tree has that node's page id as its
\* parent_page_id, and the root's parent_page_id is INVALID_PAGE_ID
C30_ParentPointers ==
  (~failed /\ last.op \in {"Insert", "Remove"})
    => /\ root_page_id # INVALID_PAGE_ID => IsRootPage(Data(TreeState, root_page_id))
       /\ \A p \in TreeNodes :
            ~IsLeafPage(Data(TreeState, p))
              => \A i \in 0..(Data(TreeState, p).size - 1) :
                   /\ ValueOf(Data(TreeState, p), i) \in 1..(next_page_id - 1)
                   /\ Data(TreeState, ValueOf(Data(TreeState, p), i)).parent_page_id
                        = Data(TreeState, p).page_id

\* the depths at which the leaves under page p lie, p itself lying at depth
RECURSIVE LeafDepths(_, _, _)
LeafDepths(p, depth, fuel) ==
  IF fuel = 0 \/ p \notin 1..(next_page_id - 1) THEN {}
  ELSE IF IsLeafPage(Data(TreeState, p)) THEN {depth}
  ELSE UNION { LeafDepths(ValueOf(Data(TreeState, p), i), depth + 1, fuel - 1) :
                 i \in 0..(Data(TreeState, p).size - 1) }

InHistory == {replacer.temp_pool[i].id : i \in DOMAIN replacer.temp_pool}

InCache == {replacer.cache_pool[i].id : i \in DOMAIN replacer.cache_pool}

\* C32: a tracked frame has one record, in one of the two lists; the tracked
\* frames are those accessed since they were last evicted or removed; a
\* tracked frame is in history exactly when it has fewer than k such
\* accesses and in cache exactly when it has at least k
C32_ListMembership ==
  /\ Cardinality(InHistory) = Len(replacer.temp_pool)
  /\ Cardinality(InCache) = Len(replacer.cache_pool)
  /\ InHistory \cap InCache = {}
  /\ TrackedFrames = {f \in 1..LruFrames : AccessCount(f) >= 1}
  /\ \A f \in TrackedFrames :
       /\ f \in InHistory <=> AccessCount(f) < replacer.k
       /\ f \in InCache <=> AccessCount(f) >= replacer.k

\* C33: record_access of a frame the replacer does not track leaves it
\* evictable with no set_evictable call: size() is one higher and evict
\* returns the frame unless an older evictable history frame goes first;
\* set_evictable(frame, false) takes it out of size() and out of evict's
\* choice, and no call but that one, or the evict or remove that takes the
\* frame away, ends a tracked frame's being evictable
C33_DefaultEvictable ==
  /\ (last.op = "RecordAccess" /\ AccessCount(last.frame_id) = 1)
       => last.frame_id \in EvictableFrames
  /\ \A f \in (1..LruFrames) \ TrackedFrames :
       \A r \in {RecordAccess(replacer, f)} :
         /\ f \in EvictableIn(r)
         /\ ReplacerSize(r) = ReplacerSize(replacer) + 1
         /\ Evict(r).ret
         /\ EvictableInHistory = {} => Evict(r).frame_id = f
         /\ f \notin EvictableIn(SetEvictable(r, f, FALSE))
         /\ ReplacerSize(SetEvictable(r, f, FALSE)) = ReplacerSize(replacer)
         /\ Evict(SetEvictable(r, f, FALSE)).frame_id # f
  /\ \A f \in EvictableFrames :
       /\ \A g \in 1..LruFrames : f \in EvictableIn(RecordAccess(replacer, g))
       /\ \A g \in 1..LruFrames, b \in BOOLEAN :
            (g # f \/ b) => f \in EvictableIn(SetEvictable(replacer, g, b))
       /\ Evict(replacer).frame_id # f => f \in EvictableIn(Evict(replacer).rep)
       /\ \A g \in (1..LruFrames) \ {f} : f \in EvictableIn(LRUKRemove(replacer, g).rep)

\* a frame was recorded for the first time while another frame was tracked
\* and not evictable, no set_evictable named it, and evict would return it
C33_NewFrameIsVictim ==
  /\ last.op = "RecordAccess"
  /\ AccessCount(last.frame_id) = 1
  /\ TrackedFrames \ EvictableFrames # {}
  /\ Evict(replacer).ret
  /\ Evict(replacer).frame_id = last.frame_id

\* the entries of the bucket of key that share the low d hash bits of key
SameLowBits(key, d) ==
  {i \in DOMAIN BucketOf(page_table, key).list :
     BucketOf(page_table, key).list[i][1] % Pow2(d) = key % Pow2(d)}

\* insert(key) meets a full bucket whose depth is global_depth, at once or
\* after splits that need no doubling: key is not stored and the entries
\* that share its low global_depth hash bits fill a bucket
MeetsFullBucket(key) ==
  /\ ~HashFind(page_table, key).found
  /\ Cardinality(SameLowBits(key, page_table.global_depth)) >= page_table.bucket_size

SlotsOf(b) == {i - 1 : i \in {j \in DOMAIN page_table.dir : page_table.dir[j] = b}}

\* C35: every bucket's depth is at most global_depth; the slots that name a
\* bucket are exactly the slots whose low depth bits equal one discriminator
\* and every key stored in the bucket has those low hash bits; num_buckets
\* is the number of distinct buckets the directory names
C35_DepthConsistency ==
  /\ \A b \in DOMAIN page_table.buckets :
       /\ page_table.buckets[b].depth <= page_table.global_depth
       /\ \E disc \in 0..(Pow2(page_table.buckets[b].depth) - 1) :
            /\ SlotsOf(b) = {i \in 0..(Len(page_table.dir) - 1) :
                               i % Pow2(page_table.buckets[b].depth) = disc}
            /\ \A e \in DOMAIN page_table.buckets[b].list :
                 page_table.buckets[b].list[e][1] % Pow2(page_table.buckets[b].depth) = disc
  /\ page_table.num_buckets = Cardinality(Range(page_table.dir))

\* an insert has left a directory of four slots over three buckets, one of
\* them of depth 1 and named by two slots
C35_BucketSharedByTwoSlots ==
  /\ last.op = "Insert"
  /\ page_table.global_depth = 2
  /\ page_table.num_buckets = 3
  /\ \E b \in DOMAIN page_table.buckets :
       /\ page_table.buckets[b].depth = 1
       /\ Cardinality(SlotsOf(b)) = 2
       /\ page_table.buckets[b].list # << >>

\* the number of hash bits that tell the keys 0..MaxHashKey apart
HashBits == CHOOSE n \in 0..(MaxHashKey + 1) : Pow2(n) > MaxHashKey /\ 2 * MaxHashKey >= Pow2(n)

\* C36: an insert of a key, the keys having pairwise distinct hashes, splits
\* a bucket at most once for each hash bit and then returns with the key
\* stored under its value
C36_InsertTerminates ==
  /\ [](thr.splits <= HashBits)
  /\ (thr.pc = "insert")
       ~> (/\ thr.pc = "idle"
           /\ HashFind(page_table, last.key) = [found |-> TRUE, value |-> last.value])

\* an insert has returned after three splits, each with a doubling
C36_ReturnedAfterCascade ==
  /\ thr.pc = "idle"
  /\ thr.splits = 3
  /\ last.op = "Insert" /\ last.ret
  /\ page_table.global_depth = 3
  /\ HashFind(page_table, last.key).found

====
